---------------------------- MODULE Spec2Model ----------------------------
(***************************************************************************)
(* A model of C163q::Option<T>, C163q::Option<void>, C163q::Result<T, E>   *)
(* and the fatal report call_panic_ (include/rs/option.hpp,                *)
(* include/rs/result20.hpp, src/rs/panic.cpp).                             *)
(*                                                                         *)
(* A std::optional<T> is a sequence of length at most one: <<>> is         *)
(* std::nullopt and <<v>> holds v.  A std::variant<T, E> is a record       *)
(* [index, value].  Every member function is one action; the action        *)
(* records the call in `last`: the receiver before the call, the           *)
(* arguments, what was returned and which user callables were invoked.     *)
(***************************************************************************)
EXTENDS Integers, Sequences, FiniteSets, TLC

\* Payload values of T, U and E are 0..MaxVal.
MaxVal == 2

Val == 0..MaxVal

\* T(): the value-initialised payload (unwrap_or(), get_or_insert(), Result()).
DefaultT == 0

\* Messages handed to expect(msg) and to panic(message).
Msgs == {"boom", "Error and abort!"}

VARIABLES
    cxx23,              \* MY_CXX23 is defined (core/config.hpp)
    enable_traceback,   \* C163q::enable_traceback
    pc,                 \* "run", or the position inside call_panic_
    panic_message,      \* call_panic_'s message argument
    panic_location,     \* call_panic_'s location argument
    output,             \* what the process wrote, in order: [stream, text]
    m_data,             \* Option<T>::m_data
    v_data,             \* Option<void>::m_data
    last,               \* the last call made on the Option objects
    same_TE,            \* std::is_same_v<T, E> for the Result x
    formattable,        \* std::formatter exists for alternative 0 (T), 1 (E)
    x_data,             \* Result<T, E>::m_data of the Result x
    x_built,            \* the constructor or factory that built x
    w_data,             \* Result<void, E>::m_data of the Result w
    w_built,            \* the constructor that built w
    r_last,             \* the last call made on the Result objects
    fmt                 \* the std::formatter<std::span<T, Extend>, CharT> object

vars == <<cxx23, enable_traceback, pc, panic_message, panic_location, output,
          m_data, v_data, last, same_TE, formattable, x_data, x_built, w_data,
          w_built, r_last, fmt>>

panic_vars == <<pc, panic_message, panic_location, output>>
option_vars == <<m_data, v_data, last>>
result_vars == <<same_TE, x_data, x_built, w_data, w_built, r_last>>
config_vars == <<cxx23, enable_traceback, formattable, fmt>>

----------------------------------------------------------------------------
(* std::optional, std::move, std::invoke                                   *)

nullopt == <<>>

monostate == "monostate"

has_value(o) == Len(o) > 0

\* *m_data
Deref(o) == o[1]

\* std::in_place construction of an optional
in_place(v) == <<v>>

\* What an object may hold after std::move(obj) was handed on: unspecified.
MovedFrom(v) == Val

AfterMove_resets(o, moving) ==
    IF moving /\ has_value(o) THEN {nullopt} ELSE {o}

\* The receiver's m_data after a call that hands std::move(*m_data) or
\* std::move(*this) on when it is filled (the non-const overloads).
AfterMove(o, moving) ==
    IF moving /\ has_value(o) THEN {in_place(w) : w \in MovedFrom(Deref(o))}
    ELSE {o}

\* Callables with one parameter, F: T -> U.
Fns == { [v \in Val |-> (v + 1) % (MaxVal + 1)],
         [v \in Val |-> 0],
         [v \in Val |-> MaxVal - v] }

\* Callables without parameters, returning r.
Thunk(r) == [u \in {<<>>} |-> r]

Thunks == { Thunk(r) : r \in Val }

\* Option<U> values
Options == {nullopt} \cup { in_place(v) : v \in Val }

VoidOptions == {nullopt, in_place(monostate)}

\* Callables F: T -> Option<U>
OptionFns == { [v \in Val |-> in_place(v)],
               [v \in Val |-> nullopt],
               [v \in Val |-> IF v = 0 THEN nullopt ELSE in_place(v - 1)] }

OptionThunks == { Thunk(o) : o \in Options }

VoidOptionThunks == { Thunk(o) : o \in VoidOptions }

\* Predicates P: const T& -> bool
Preds == { [v \in Val |-> TRUE],
           [v \in Val |-> FALSE],
           [v \in Val |-> v > 0] }

BoolThunks == { Thunk(b) : b \in BOOLEAN }

\* std::invoke(f, v) and std::invoke(f), with the record of the invocation
Invoke(f, v) == f[v]
Invoke0(f) == f[<<>>]
Called(callee, v) == [callee |-> callee, args |-> <<v>>]
Called0(callee) == [callee |-> callee, args |-> <<>>]

----------------------------------------------------------------------------
(* return values                                                           *)

RetT(v) == [kind |-> "T", val |-> v]
RetBool(b) == [kind |-> "bool", val |-> b]
RetOption(o) == [kind |-> "Option", data |-> o]
RetVoid == [kind |-> "void"]
RetSelf == [kind |-> "Option&"]
RetPayloadRef == [kind |-> "T&"]
NoReturn == [kind |-> "noreturn"]
RetResult(i, v) == [kind |-> "Result", index |-> i, value |-> v]

----------------------------------------------------------------------------
(* src/rs/panic.cpp                                                        *)

\* std::source_location: function_name() may be null (<<>>).
Locations ==
    { [file_name |-> "test/src/panic.cpp", function_name |-> <<"int main()">>,
       line |-> 5, column |-> 5],
      [file_name |-> "include/rs/option.hpp", function_name |-> <<>>,
       line |-> 843, column |-> 17] }

NoLocation == [file_name |-> "", function_name |-> <<>>, line |-> 0, column |-> 0]

DigitText == <<"0", "1", "2", "3", "4", "5", "6", "7", "8", "9">>

\* operator<< / {} of an unsigned number
RECURSIVE FormatNat(_)
FormatNat(n) ==
    IF n < 10 THEN DigitText[n + 1]
    ELSE FormatNat(n \div 10) \o DigitText[(n % 10) + 1]

\* The diagnostic call_panic_ writes to stderr, as the pieces it is put
\* together from (the operands of operator<<, the fields of the format string).
Diagnostic(message, location) ==
    IF location.function_name # <<>>
    THEN <<"panicked at ", location.file_name, " in function ",
           location.function_name[1], ":", FormatNat(location.line), ":",
           FormatNat(location.column), ":\n", message, "\n">>
    ELSE <<"panicked at ", location.file_name, ":", FormatNat(location.line), ":",
           FormatNat(location.column), ":\n", message, "\n">>

\* println("{}", std::stacktrace::current())
StackTrace == <<"std::stacktrace::current()", "\n">>

\* The panic(message) macro: control enters call_panic_ and the caller's
\* frame is never resumed.
EnterPanic(message) ==
    /\ pc' = "call_panic_"
    /\ panic_message' = message
    /\ \E location \in Locations : panic_location' = location
    /\ UNCHANGED output

NoPanic == UNCHANGED panic_vars

\* call_panic_: the diagnostic goes to stderr.
call_panic_write ==
    /\ pc = "call_panic_"
    /\ output' = Append(output, [stream |-> "stderr",
                                 text |-> Diagnostic(panic_message, panic_location)])
    /\ pc' = "traceback"
    /\ UNCHANGED <<panic_message, panic_location, config_vars, option_vars, result_vars>>

\* call_panic_: the stack trace, compiled in only with MY_CXX23.
call_panic_traceback ==
    /\ pc = "traceback"
    /\ output' = IF cxx23 /\ enable_traceback
                 THEN Append(output, [stream |-> "stdout", text |-> StackTrace])
                 ELSE output
    /\ pc' = "abort"
    /\ UNCHANGED <<panic_message, panic_location, config_vars, option_vars, result_vars>>

call_panic_abort_returns ==
    /\ pc = "abort"
    /\ pc' = "run"
    /\ UNCHANGED <<panic_message, panic_location, output, config_vars, option_vars, result_vars>>

\* call_panic_: abort()
call_panic_abort ==
    /\ pc = "abort"
    /\ pc' = "aborted"
    /\ UNCHANGED <<panic_message, panic_location, output, config_vars, option_vars, result_vars>>

\* The application sets the trace flag (test/src/panic.cpp).
SetTraceback ==
    /\ pc = "run"
    /\ \E b \in BOOLEAN : enable_traceback' = b
    /\ enable_traceback' # enable_traceback
    /\ UNCHANGED <<cxx23, formattable, fmt, panic_vars, option_vars, result_vars>>

\* The application calls panic(message) itself (test/src/panic.cpp).
AppPanic ==
    /\ pc = "run"
    /\ \E message \in Msgs :
        /\ EnterPanic(message)
        /\ last' = [op |-> "panic", cls |-> "", moving |-> FALSE, pre |-> nullopt,
                    arg |-> [message |-> message], ret |-> NoReturn, calls |-> <<>>]
    /\ UNCHANGED <<config_vars, m_data, v_data, result_vars>>

----------------------------------------------------------------------------
(* include/rs/option.hpp: Option<T>                                        *)

Option_is_some(o) == has_value(o)

Option_is_none_unnegated(o) == has_value(o)

Option_is_none(o) == ~has_value(o)

\* call_panic_with_TN_uncheck<1>: std::format("{}{}{}", msg, sep, "None")
call_panic_with_TN_uncheck_1_no_sep(msg, sep) == msg \o "None"

call_panic_with_TN_uncheck_1(msg, sep) == msg \o sep \o "None"

\* The record of a call on the Option<T> object.
OptionCall(op, moving, arg, ret, calls) ==
    last' = [op |-> op, cls |-> "Option<T>", moving |-> moving, pre |-> m_data,
             arg |-> arg, ret |-> ret, calls |-> calls]

NoArg == [none |-> TRUE]

\* A call that returns: the receiver becomes one of `after`.
Returns(after) ==
    /\ m_data' \in after
    /\ NoPanic

\* A call that ends in panic(message): the receiver is as it was.
Panics(message) ==
    /\ m_data' = m_data
    /\ EnterPanic(message)

OptionFrame == UNCHANGED <<config_vars, v_data, result_vars>>

is_some ==
    /\ pc = "run"
    /\ OptionCall("is_some", FALSE, NoArg, RetBool(Option_is_some(m_data)), <<>>)
    /\ Returns({m_data})
    /\ OptionFrame

is_none ==
    /\ pc = "run"
    /\ OptionCall("is_none", FALSE, NoArg, RetBool(Option_is_none(m_data)), <<>>)
    /\ Returns({m_data})
    /\ OptionFrame

is_some_and ==
    /\ pc = "run"
    /\ \E f \in Preds :
        /\ IF Option_is_some(m_data)
           THEN OptionCall("is_some_and", FALSE, [f |-> f],
                           RetBool(Invoke(f, Deref(m_data))),
                           <<Called("f", Deref(m_data))>>)
           ELSE OptionCall("is_some_and", FALSE, [f |-> f], RetBool(FALSE), <<>>)
    /\ Returns({m_data})
    /\ OptionFrame

is_none_or ==
    /\ pc = "run"
    /\ \E f \in Preds :
        /\ IF Option_is_none(m_data)
           THEN OptionCall("is_none_or", FALSE, [f |-> f], RetBool(TRUE), <<>>)
           ELSE OptionCall("is_none_or", FALSE, [f |-> f],
                           RetBool(Invoke(f, Deref(m_data))),
                           <<Called("f", Deref(m_data))>>)
    /\ Returns({m_data})
    /\ OptionFrame

expect ==
    /\ pc = "run"
    /\ \E msg \in Msgs, moving \in BOOLEAN :
        IF Option_is_some(m_data)
        THEN /\ OptionCall("expect", moving, [msg |-> msg], RetT(Deref(m_data)), <<>>)
             /\ Returns(AfterMove(m_data, moving))
        ELSE /\ OptionCall("expect", moving, [msg |-> msg], NoReturn, <<>>)
             /\ Panics(call_panic_with_TN_uncheck_1(msg, ": "))
    /\ OptionFrame

unwrap ==
    /\ pc = "run"
    /\ \E moving \in BOOLEAN :
        IF Option_is_some(m_data)
        THEN /\ OptionCall("unwrap", moving, NoArg, RetT(Deref(m_data)), <<>>)
             /\ Returns(AfterMove(m_data, moving))
        ELSE /\ OptionCall("unwrap", moving, NoArg, NoReturn, <<>>)
             /\ Panics(call_panic_with_TN_uncheck_1("", ""))
    /\ OptionFrame

unwrap_or_value ==
    /\ pc = "run"
    /\ \E default_value \in Val, moving \in BOOLEAN :
        IF Option_is_some(m_data)
        THEN /\ OptionCall("unwrap_or(T)", moving, [default_value |-> default_value],
                           RetT(Deref(m_data)), <<>>)
             /\ Returns(AfterMove(m_data, moving))
        ELSE /\ OptionCall("unwrap_or(T)", moving, [default_value |-> default_value],
                           RetT(default_value), <<>>)
             /\ Returns({m_data})
    /\ OptionFrame

unwrap_or_invoke_eagerly ==
    /\ pc = "run"
    /\ \E f \in Thunks, moving \in BOOLEAN :
        IF Option_is_some(m_data)
        THEN /\ OptionCall("unwrap_or(F)", moving, [f |-> f], RetT(Deref(m_data)),
                           <<Called0("f")>>)
             /\ Returns(AfterMove(m_data, moving))
        ELSE /\ OptionCall("unwrap_or(F)", moving, [f |-> f], RetT(Invoke0(f)),
                           <<Called0("f")>>)
             /\ Returns({m_data})
    /\ OptionFrame

unwrap_or_invoke ==
    /\ pc = "run"
    /\ \E f \in Thunks, moving \in BOOLEAN :
        IF Option_is_some(m_data)
        THEN /\ OptionCall("unwrap_or(F)", moving, [f |-> f], RetT(Deref(m_data)), <<>>)
             /\ Returns(AfterMove(m_data, moving))
        ELSE /\ OptionCall("unwrap_or(F)", moving, [f |-> f], RetT(Invoke0(f)),
                           <<Called0("f")>>)
             /\ Returns({m_data})
    /\ OptionFrame

unwrap_or_default_checked ==
    /\ pc = "run"
    /\ \E moving \in BOOLEAN :
        IF Option_is_some(m_data)
        THEN /\ OptionCall("unwrap_or()", moving, NoArg, RetT(Deref(m_data)), <<>>)
             /\ Returns(AfterMove(m_data, moving))
        ELSE /\ OptionCall("unwrap_or()", moving, NoArg, NoReturn, <<>>)
             /\ Panics(call_panic_with_TN_uncheck_1("", ""))
    /\ OptionFrame

unwrap_or_default ==
    /\ pc = "run"
    /\ \E moving \in BOOLEAN :
        IF Option_is_some(m_data)
        THEN /\ OptionCall("unwrap_or()", moving, NoArg, RetT(Deref(m_data)), <<>>)
             /\ Returns(AfterMove(m_data, moving))
        ELSE /\ OptionCall("unwrap_or()", moving, NoArg, RetT(DefaultT), <<>>)
             /\ Returns({m_data})
    /\ OptionFrame

\* m_data.value() throws std::bad_optional_access on an empty optional; the
\* catch (...) turns it into panic("Option has no value").
get ==
    /\ pc = "run"
    /\ \E moving \in BOOLEAN :
        IF has_value(m_data)
        THEN /\ OptionCall("get", moving, NoArg, RetPayloadRef, <<>>)
             /\ Returns({m_data})
        ELSE /\ OptionCall("get", moving, NoArg, NoReturn, <<>>)
             /\ Panics("Option has no value")
    /\ OptionFrame

\* UB on an empty Option: the read of the disengaged storage yields any value.
unwrap_unchecked ==
    /\ pc = "run"
    /\ \E moving \in BOOLEAN, garbage \in Val :
        IF has_value(m_data)
        THEN /\ OptionCall("unwrap_unchecked", moving, NoArg, RetT(Deref(m_data)), <<>>)
             /\ Returns(AfterMove(m_data, moving))
        ELSE /\ OptionCall("unwrap_unchecked", moving, NoArg, RetT(garbage), <<>>)
             /\ Returns({m_data})
    /\ OptionFrame

map_without_f ==
    /\ pc = "run"
    /\ \E f \in Fns, moving \in BOOLEAN :
        IF Option_is_some(m_data)
        THEN /\ OptionCall("map(F)", moving, [f |-> f],
                           RetOption(in_place(Deref(m_data))),
                           <<Called("f", Deref(m_data))>>)
             /\ Returns(AfterMove(m_data, moving))
        ELSE /\ OptionCall("map(F)", moving, [f |-> f], RetOption(nullopt), <<>>)
             /\ Returns({m_data})
    /\ OptionFrame

map ==
    /\ pc = "run"
    /\ \E f \in Fns, moving \in BOOLEAN :
        IF Option_is_some(m_data)
        THEN /\ OptionCall("map(F)", moving, [f |-> f],
                           RetOption(in_place(Invoke(f, Deref(m_data)))),
                           <<Called("f", Deref(m_data))>>)
             /\ Returns(AfterMove(m_data, moving))
        ELSE /\ OptionCall("map(F)", moving, [f |-> f], RetOption(nullopt), <<>>)
             /\ Returns({m_data})
    /\ OptionFrame

\* The non-const overload hands f a T&: f may write the payload.
inspect ==
    /\ pc = "run"
    /\ \E f \in Fns, moving \in BOOLEAN :
        IF Option_is_some(m_data)
        THEN /\ OptionCall("inspect", moving, [f |-> f], RetSelf,
                           <<Called("f", Deref(m_data))>>)
             /\ Returns(AfterMove(m_data, moving))
        ELSE /\ OptionCall("inspect", moving, [f |-> f], RetSelf, <<>>)
             /\ Returns({m_data})
    /\ OptionFrame

\* map(U default_value, F&& f): the value of std::invoke(f, ...) is dropped.
map_default ==
    /\ pc = "run"
    /\ \E default_value \in Val, f \in Fns, moving \in BOOLEAN :
        IF Option_is_some(m_data)
        THEN /\ OptionCall("map(U, F)", moving, [default_value |-> default_value, f |-> f],
                           RetT(default_value), <<Called("f", Deref(m_data))>>)
             /\ Returns(AfterMove(m_data, moving))
        ELSE /\ OptionCall("map(U, F)", moving, [default_value |-> default_value, f |-> f],
                           RetT(default_value), <<>>)
             /\ Returns({m_data})
    /\ OptionFrame

\* map(D&& fallback, F&& f): the value of std::invoke(f, ...) is dropped and
\* fallback is invoked on every path.
map_fallback ==
    /\ pc = "run"
    /\ \E fallback \in Thunks, f \in Fns, moving \in BOOLEAN :
        IF Option_is_some(m_data)
        THEN /\ OptionCall("map(D, F)", moving, [fallback |-> fallback, f |-> f],
                           RetT(Invoke0(fallback)),
                           <<Called("f", Deref(m_data)), Called0("fallback")>>)
             /\ Returns(AfterMove(m_data, moving))
        ELSE /\ OptionCall("map(D, F)", moving, [fallback |-> fallback, f |-> f],
                           RetT(Invoke0(fallback)), <<Called0("fallback")>>)
             /\ Returns({m_data})
    /\ OptionFrame

ok_or ==
    /\ pc = "run"
    /\ \E err \in Val, moving \in BOOLEAN :
        IF Option_is_some(m_data)
        THEN /\ OptionCall("ok_or", moving, [err |-> err],
                           RetResult(0, Deref(m_data)), <<>>)
             /\ Returns(AfterMove(m_data, moving))
        ELSE /\ OptionCall("ok_or", moving, [err |-> err], RetResult(1, err), <<>>)
             /\ Returns({m_data})
    /\ OptionFrame

ok_or_else_eagerly ==
    /\ pc = "run"
    /\ \E err \in Thunks, moving \in BOOLEAN :
        IF Option_is_some(m_data)
        THEN /\ OptionCall("ok_or_else", moving, [err |-> err],
                           RetResult(0, Deref(m_data)), <<Called0("err")>>)
             /\ Returns(AfterMove(m_data, moving))
        ELSE /\ OptionCall("ok_or_else", moving, [err |-> err],
                           RetResult(1, Invoke0(err)), <<Called0("err")>>)
             /\ Returns({m_data})
    /\ OptionFrame

ok_or_else ==
    /\ pc = "run"
    /\ \E err \in Thunks, moving \in BOOLEAN :
        IF Option_is_some(m_data)
        THEN /\ OptionCall("ok_or_else", moving, [err |-> err],
                           RetResult(0, Deref(m_data)), <<>>)
             /\ Returns(AfterMove(m_data, moving))
        ELSE /\ OptionCall("ok_or_else", moving, [err |-> err],
                           RetResult(1, Invoke0(err)), <<Called0("err")>>)
             /\ Returns({m_data})
    /\ OptionFrame

\* and_then(Option<U> other) const
and_then_other ==
    /\ pc = "run"
    /\ \E other \in Options :
        IF Option_is_some(m_data)
        THEN OptionCall("and_then(Option)", FALSE, [other |-> other], RetOption(other), <<>>)
        ELSE OptionCall("and_then(Option)", FALSE, [other |-> other], RetOption(nullopt), <<>>)
    /\ Returns({m_data})
    /\ OptionFrame

and_then_unguarded ==
    /\ pc = "run"
    /\ \E f \in OptionFns, moving \in BOOLEAN :
        IF Option_is_some(m_data)
        THEN /\ OptionCall("and_then(F)", moving, [f |-> f], RetOption(nullopt),
                           <<Called("f", Deref(m_data))>>)
             /\ Returns(AfterMove(m_data, moving))
        ELSE /\ OptionCall("and_then(F)", moving, [f |-> f], RetOption(nullopt),
                           <<Called("f", DefaultT)>>)
             /\ Returns({m_data})
    /\ OptionFrame

\* and_then(F&& f): std::invoke(f, ...) is a statement of its own, and the
\* function returns std::nullopt on every path.
and_then ==
    /\ pc = "run"
    /\ \E f \in OptionFns, moving \in BOOLEAN :
        IF Option_is_some(m_data)
        THEN /\ OptionCall("and_then(F)", moving, [f |-> f], RetOption(nullopt),
                           <<Called("f", Deref(m_data))>>)
             /\ Returns(AfterMove(m_data, moving))
        ELSE /\ OptionCall("and_then(F)", moving, [f |-> f], RetOption(nullopt), <<>>)
             /\ Returns({m_data})
    /\ OptionFrame

filter_without_predicate ==
    /\ pc = "run"
    /\ \E predicate \in Preds, moving \in BOOLEAN :
        IF Option_is_none(m_data)
        THEN /\ OptionCall("filter", moving, [predicate |-> predicate],
                           RetOption(nullopt), <<>>)
             /\ Returns({m_data})
        ELSE /\ OptionCall("filter", moving, [predicate |-> predicate],
                           RetOption(m_data), <<Called("predicate", Deref(m_data))>>)
             /\ Returns(AfterMove(m_data, moving))
    /\ OptionFrame

filter ==
    /\ pc = "run"
    /\ \E predicate \in Preds, moving \in BOOLEAN :
        IF Option_is_none(m_data)
        THEN /\ OptionCall("filter", moving, [predicate |-> predicate],
                           RetOption(nullopt), <<>>)
             /\ Returns({m_data})
        ELSE IF Invoke(predicate, Deref(m_data))
        THEN /\ OptionCall("filter", moving, [predicate |-> predicate],
                           RetOption(m_data), <<Called("predicate", Deref(m_data))>>)
             /\ Returns(AfterMove(m_data, moving))
        ELSE /\ OptionCall("filter", moving, [predicate |-> predicate],
                           RetOption(nullopt), <<Called("predicate", Deref(m_data))>>)
             /\ Returns({m_data})
    /\ OptionFrame

\* m.filter(p).filter(p): the Option that filter(p) returned is a temporary,
\* and the non-const filter is called on it with the same predicate.  The
\* record of the call holds the temporary as its receiver.
filter_returned ==
    /\ pc = "run"
    /\ last.cls = "Option<T>"
    /\ last.op = "filter"
    /\ LET tmp == last.ret.data
           predicate == last.arg.predicate
           Record(ret, calls) ==
               [op |-> "filter.filter", cls |-> "Option<T>", moving |-> TRUE,
                pre |-> tmp, arg |-> [predicate |-> predicate],
                ret |-> ret, calls |-> calls]
       IN  IF Option_is_none(tmp)
           THEN last' = Record(RetOption(nullopt), <<>>)
           ELSE IF Invoke(predicate, Deref(tmp))
           THEN last' = Record(RetOption(tmp), <<Called("predicate", Deref(tmp))>>)
           ELSE last' = Record(RetOption(nullopt), <<Called("predicate", Deref(tmp))>>)
    /\ Returns({m_data})
    /\ OptionFrame

or_else_other ==
    /\ pc = "run"
    /\ \E other \in Options, moving \in BOOLEAN :
        IF Option_is_some(m_data)
        THEN /\ OptionCall("or_else(Option)", moving, [other |-> other],
                           RetOption(m_data), <<>>)
             /\ Returns(AfterMove(m_data, moving))
        ELSE /\ OptionCall("or_else(Option)", moving, [other |-> other],
                           RetOption(other), <<>>)
             /\ Returns({m_data})
    /\ OptionFrame

or_else_always_invokes ==
    /\ pc = "run"
    /\ \E f \in OptionThunks, moving \in BOOLEAN :
        IF Option_is_some(m_data)
        THEN /\ OptionCall("or_else(F)", moving, [f |-> f], RetOption(Invoke0(f)),
                           <<Called0("f")>>)
             /\ Returns(AfterMove(m_data, moving))
        ELSE /\ OptionCall("or_else(F)", moving, [f |-> f], RetOption(Invoke0(f)),
                           <<Called0("f")>>)
             /\ Returns({m_data})
    /\ OptionFrame

or_else ==
    /\ pc = "run"
    /\ \E f \in OptionThunks, moving \in BOOLEAN :
        IF Option_is_some(m_data)
        THEN /\ OptionCall("or_else(F)", moving, [f |-> f], RetOption(m_data), <<>>)
             /\ Returns(AfterMove(m_data, moving))
        ELSE /\ OptionCall("or_else(F)", moving, [f |-> f], RetOption(Invoke0(f)),
                           <<Called0("f")>>)
             /\ Returns({m_data})
    /\ OptionFrame

xor_else_inclusive ==
    /\ pc = "run"
    /\ \E other \in Options, moving \in BOOLEAN :
        IF ~Option_is_some(m_data) /\ ~Option_is_some(other)
        THEN /\ OptionCall("xor_else", moving, [other |-> other], RetOption(nullopt), <<>>)
             /\ Returns({m_data})
        ELSE IF Option_is_some(m_data)
        THEN /\ OptionCall("xor_else", moving, [other |-> other], RetOption(m_data), <<>>)
             /\ Returns(AfterMove(m_data, moving))
        ELSE /\ OptionCall("xor_else", moving, [other |-> other], RetOption(other), <<>>)
             /\ Returns({m_data})
    /\ OptionFrame

xor_else ==
    /\ pc = "run"
    /\ \E other \in Options, moving \in BOOLEAN :
        IF Option_is_some(m_data) = Option_is_some(other)
        THEN /\ OptionCall("xor_else", moving, [other |-> other], RetOption(nullopt), <<>>)
             /\ Returns({m_data})
        ELSE IF Option_is_some(m_data)
        THEN /\ OptionCall("xor_else", moving, [other |-> other], RetOption(m_data), <<>>)
             /\ Returns(AfterMove(m_data, moving))
        ELSE /\ OptionCall("xor_else", moving, [other |-> other], RetOption(other), <<>>)
             /\ Returns({m_data})
    /\ OptionFrame

insert ==
    /\ pc = "run"
    /\ \E value \in Val :
        /\ OptionCall("insert", TRUE, [value |-> value], RetSelf, <<>>)
        /\ Returns({in_place(value)})
    /\ OptionFrame

get_or_insert_value ==
    /\ pc = "run"
    /\ \E value \in Val :
        /\ OptionCall("get_or_insert(T)", TRUE, [value |-> value], RetPayloadRef, <<>>)
        /\ Returns({IF Option_is_none(m_data) THEN in_place(value) ELSE m_data})
    /\ OptionFrame

\* get_or_insert(): the return statement names *this
get_or_insert_default ==
    /\ pc = "run"
    /\ OptionCall("get_or_insert()", TRUE, NoArg, RetSelf, <<>>)
    /\ Returns({IF Option_is_none(m_data) THEN in_place(DefaultT) ELSE m_data})
    /\ OptionFrame

\* get_or_insert(F&& f): the return statement names *this
get_or_insert_invoke ==
    /\ pc = "run"
    /\ \E f \in Thunks :
        IF Option_is_none(m_data)
        THEN /\ OptionCall("get_or_insert(F)", TRUE, [f |-> f], RetSelf, <<Called0("f")>>)
             /\ Returns({in_place(Invoke0(f))})
        ELSE /\ OptionCall("get_or_insert(F)", TRUE, [f |-> f], RetSelf, <<>>)
             /\ Returns({m_data})
    /\ OptionFrame

\* Option<T> ret(std::move(m_data)); m_data.reset(); return ret;
take_without_reset ==
    /\ pc = "run"
    /\ OptionCall("take()", TRUE, NoArg, RetOption(m_data), <<>>)
    /\ Returns(AfterMove(m_data, TRUE))
    /\ OptionFrame

take ==
    /\ pc = "run"
    /\ OptionCall("take()", TRUE, NoArg, RetOption(m_data), <<>>)
    /\ Returns({nullopt})
    /\ OptionFrame

take_if ==
    /\ pc = "run"
    /\ \E predicate \in Preds :
        IF Option_is_none(m_data)
        THEN /\ OptionCall("take(P)", TRUE, [predicate |-> predicate],
                           RetOption(nullopt), <<>>)
             /\ Returns({m_data})
        ELSE IF Invoke(predicate, Deref(m_data))
        THEN /\ OptionCall("take(P)", TRUE, [predicate |-> predicate],
                           RetOption(m_data), <<Called("predicate", Deref(m_data))>>)
             /\ Returns({nullopt})
        ELSE /\ OptionCall("take(P)", TRUE, [predicate |-> predicate],
                           RetOption(nullopt), <<Called("predicate", Deref(m_data))>>)
             /\ Returns({m_data})
    /\ OptionFrame

replace_without_swap ==
    /\ pc = "run"
    /\ \E value \in Val :
        /\ OptionCall("replace", TRUE, [value |-> value], RetOption(in_place(value)), <<>>)
        /\ Returns({m_data})
    /\ OptionFrame

\* Option<T> ret(std::in_place, value); m_data.swap(ret.m_data); return ret;
replace ==
    /\ pc = "run"
    /\ \E value \in Val :
        /\ OptionCall("replace", TRUE, [value |-> value], RetOption(m_data), <<>>)
        /\ Returns({in_place(value)})
    /\ OptionFrame

\* The pair is <<first, second>>.
zip ==
    /\ pc = "run"
    /\ \E other \in Options, moving \in BOOLEAN :
        IF Option_is_some(m_data) /\ Option_is_some(other)
        THEN /\ OptionCall("zip", moving, [other |-> other],
                           RetOption(in_place(<<Deref(m_data), Deref(other)>>)), <<>>)
             /\ Returns(AfterMove(m_data, moving))
        ELSE /\ OptionCall("zip", moving, [other |-> other], RetOption(nullopt), <<>>)
             /\ Returns({m_data})
    /\ OptionFrame

\* The elements a structured binding auto& [a, b] = t names.
tuple_element(I, t) == [get |-> I, of |-> t]

\* A std::pair of two returned Options.
RetPair(a, b) == [kind |-> "pair", first |-> a, second |-> b]

\* unzip(), for a T with two elements:
\*     if (is_none()) return std::make_pair(Option<U>(std::nullopt), Option<V>(std::nullopt));
\*     auto& [a, b] = *m_data;
\*     return std::make_pair(Option<U>(std::in_place, std::move(a)),
\*                           Option<V>(std::in_place, std::move(b)));
unzip ==
    /\ pc = "run"
    /\ \E moving \in BOOLEAN :
        IF Option_is_none(m_data)
        THEN /\ OptionCall("unzip", moving, NoArg,
                           RetPair(RetOption(nullopt), RetOption(nullopt)), <<>>)
             /\ Returns({m_data})
        ELSE /\ OptionCall("unzip", moving, NoArg,
                           RetPair(RetOption(in_place(tuple_element(0, Deref(m_data)))),
                                   RetOption(in_place(tuple_element(1, Deref(m_data))))),
                           <<>>)
             /\ Returns(AfterMove(m_data, moving))
    /\ OptionFrame

clone ==
    /\ pc = "run"
    /\ OptionCall("clone", FALSE, NoArg, RetOption(m_data), <<>>)
    /\ Returns({m_data})
    /\ OptionFrame

as_const ==
    /\ pc = "run"
    /\ OptionCall("as_const", FALSE, NoArg, RetSelf, <<>>)
    /\ Returns({m_data})
    /\ OptionFrame

as_mut ==
    /\ pc = "run"
    /\ OptionCall("as_mut", FALSE, NoArg, RetSelf, <<>>)
    /\ Returns({m_data})
    /\ OptionFrame

\* std::ref(*m_data) / std::cref(*m_data): a reference to the payload of m_data
RefToPayload(const) == [ref |-> "*m_data", const |-> const]

as_ref_copies ==
    /\ pc = "run"
    /\ \E moving \in BOOLEAN :
        IF Option_is_none(m_data)
        THEN OptionCall("as_ref", moving, NoArg, RetOption(nullopt), <<>>)
        ELSE OptionCall("as_ref", moving, NoArg,
                        RetOption(in_place([copy |-> Deref(m_data)])), <<>>)
    /\ Returns({m_data})
    /\ OptionFrame

\* as_ref() on the non-const receiver; on the const receiver it is as_cref().
as_ref ==
    /\ pc = "run"
    /\ \E moving \in BOOLEAN :
        IF Option_is_none(m_data)
        THEN OptionCall("as_ref", moving, NoArg, RetOption(nullopt), <<>>)
        ELSE OptionCall("as_ref", moving, NoArg,
                        RetOption(in_place(RefToPayload(~moving))), <<>>)
    /\ Returns({m_data})
    /\ OptionFrame

as_cref ==
    /\ pc = "run"
    /\ IF Option_is_none(m_data)
       THEN OptionCall("as_cref", FALSE, NoArg, RetOption(nullopt), <<>>)
       ELSE OptionCall("as_cref", FALSE, NoArg,
                       RetOption(in_place(RefToPayload(TRUE))), <<>>)
    /\ Returns({m_data})
    /\ OptionFrame

\* m.as_ref().unwrap().get() = value: the assignment goes to the object the
\* std::reference_wrapper<T> in the returned Option refers to.  A
\* std::reference_wrapper<const T> gives no way to assign.
as_ref_write ==
    /\ pc = "run"
    /\ last.cls = "Option<T>"
    /\ last.op = "as_ref"
    /\ has_value(last.ret.data)
    /\ LET view == Deref(last.ret.data)
       IN  /\ "const" \in DOMAIN view => ~view.const
           /\ \E value \in Val :
                /\ last' = [op |-> "as_ref.write", cls |-> "Option<T>", moving |-> TRUE,
                            pre |-> m_data, arg |-> [value |-> value],
                            ret |-> RetVoid, calls |-> <<>>]
                /\ IF "ref" \in DOMAIN view /\ view.ref = "*m_data"
                   THEN Returns({in_place(value)})
                   ELSE Returns({m_data})
    /\ OptionFrame

\* operator=(std::nullopt_t)
assign_nullopt ==
    /\ pc = "run"
    /\ OptionCall("operator=(nullopt)", TRUE, NoArg, RetSelf, <<>>)
    /\ Returns({nullopt})
    /\ OptionFrame

\* operator=(const Option&) and operator=(Option&&)
assign_option ==
    /\ pc = "run"
    /\ \E other \in Options :
        /\ OptionCall("operator=(Option)", TRUE, [other |-> other], RetSelf, <<>>)
        /\ Returns({other})
    /\ OptionFrame

\* operator=(U&& value)
assign_value ==
    /\ pc = "run"
    /\ \E value \in Val :
        /\ OptionCall("operator=(U)", TRUE, [value |-> value], RetSelf, <<>>)
        /\ Returns({in_place(value)})
    /\ OptionFrame

----------------------------------------------------------------------------
(* include/rs/option.hpp: Option<void>                                     *)

Option_void_is_some(o) == has_value(o)

Option_void_is_none(o) == ~has_value(o)

\* The record of a call on the Option<void> object.
VoidCall(op, arg, ret, calls) ==
    last' = [op |-> op, cls |-> "Option<void>", moving |-> FALSE, pre |-> v_data,
             arg |-> arg, ret |-> ret, calls |-> calls]

VoidReturns(after) ==
    /\ v_data' = after
    /\ NoPanic

VoidPanics(message) ==
    /\ v_data' = v_data
    /\ EnterPanic(message)

VoidFrame == UNCHANGED <<config_vars, m_data, result_vars>>

void_is_some ==
    /\ pc = "run"
    /\ VoidCall("is_some", NoArg, RetBool(Option_void_is_some(v_data)), <<>>)
    /\ VoidReturns(v_data)
    /\ VoidFrame

void_is_none ==
    /\ pc = "run"
    /\ VoidCall("is_none", NoArg, RetBool(Option_void_is_none(v_data)), <<>>)
    /\ VoidReturns(v_data)
    /\ VoidFrame

void_expect ==
    /\ pc = "run"
    /\ \E msg \in Msgs :
        IF Option_void_is_some(v_data)
        THEN /\ VoidCall("expect", [msg |-> msg], RetVoid, <<>>)
             /\ VoidReturns(v_data)
        ELSE /\ VoidCall("expect", [msg |-> msg], NoReturn, <<>>)
             /\ VoidPanics(call_panic_with_TN_uncheck_1(msg, ": "))
    /\ VoidFrame

void_unwrap ==
    /\ pc = "run"
    /\ IF Option_void_is_some(v_data)
       THEN /\ VoidCall("unwrap", NoArg, RetVoid, <<>>)
            /\ VoidReturns(v_data)
       ELSE /\ VoidCall("unwrap", NoArg, NoReturn, <<>>)
            /\ VoidPanics(call_panic_with_TN_uncheck_1("", ""))
    /\ VoidFrame

void_unwrap_or_default ==
    /\ pc = "run"
    /\ VoidCall("unwrap_or()", NoArg, RetVoid, <<>>)
    /\ VoidReturns(v_data)
    /\ VoidFrame

void_unwrap_or_invoke ==
    /\ pc = "run"
    /\ \E f \in Thunks :
        IF Option_void_is_some(v_data)
        THEN VoidCall("unwrap_or(F)", [f |-> f], RetVoid, <<>>)
        ELSE VoidCall("unwrap_or(F)", [f |-> f], RetVoid, <<Called0("f")>>)
    /\ VoidReturns(v_data)
    /\ VoidFrame

\* get(): try { return; } catch (...) { panic(...); }: nothing in the try
\* block throws.
void_get ==
    /\ pc = "run"
    /\ VoidCall("get", NoArg, RetVoid, <<>>)
    /\ VoidReturns(v_data)
    /\ VoidFrame

void_map ==
    /\ pc = "run"
    /\ \E f \in Thunks :
        IF Option_void_is_some(v_data)
        THEN VoidCall("map(F)", [f |-> f], RetOption(in_place(Invoke0(f))),
                      <<Called0("f")>>)
        ELSE VoidCall("map(F)", [f |-> f], RetOption(nullopt), <<>>)
    /\ VoidReturns(v_data)
    /\ VoidFrame

void_inspect ==
    /\ pc = "run"
    /\ \E f \in Thunks :
        IF Option_void_is_some(v_data)
        THEN VoidCall("inspect", [f |-> f], RetSelf, <<Called0("f")>>)
        ELSE VoidCall("inspect", [f |-> f], RetSelf, <<>>)
    /\ VoidReturns(v_data)
    /\ VoidFrame

\* map(U default_value, F&& f): the value of std::invoke(f) is dropped.
void_map_default ==
    /\ pc = "run"
    /\ \E default_value \in Val, f \in Thunks :
        IF Option_void_is_some(v_data)
        THEN VoidCall("map(U, F)", [default_value |-> default_value, f |-> f],
                      RetT(default_value), <<Called0("f")>>)
        ELSE VoidCall("map(U, F)", [default_value |-> default_value, f |-> f],
                      RetT(default_value), <<>>)
    /\ VoidReturns(v_data)
    /\ VoidFrame

\* map(D&& fallback, F&& f): the value of std::invoke(f) is dropped and
\* fallback is invoked on every path.
void_map_fallback ==
    /\ pc = "run"
    /\ \E fallback \in Thunks, f \in Thunks :
        IF Option_void_is_some(v_data)
        THEN VoidCall("map(D, F)", [fallback |-> fallback, f |-> f],
                      RetT(Invoke0(fallback)), <<Called0("f"), Called0("fallback")>>)
        ELSE VoidCall("map(D, F)", [fallback |-> fallback, f |-> f],
                      RetT(Invoke0(fallback)), <<Called0("fallback")>>)
    /\ VoidReturns(v_data)
    /\ VoidFrame

\* Result<void, E>(std::in_place_index<0>) holds std::monostate.
void_ok_or ==
    /\ pc = "run"
    /\ \E err \in Val :
        IF Option_void_is_some(v_data)
        THEN VoidCall("ok_or", [err |-> err], RetResult(0, monostate), <<>>)
        ELSE VoidCall("ok_or", [err |-> err], RetResult(1, err), <<>>)
    /\ VoidReturns(v_data)
    /\ VoidFrame

void_ok_or_else ==
    /\ pc = "run"
    /\ \E err \in Thunks :
        IF Option_void_is_some(v_data)
        THEN VoidCall("ok_or_else", [err |-> err], RetResult(0, monostate), <<>>)
        ELSE VoidCall("ok_or_else", [err |-> err], RetResult(1, Invoke0(err)),
                      <<Called0("err")>>)
    /\ VoidReturns(v_data)
    /\ VoidFrame

void_and_then_other ==
    /\ pc = "run"
    /\ \E other \in Options :
        IF Option_void_is_some(v_data)
        THEN VoidCall("and_then(Option)", [other |-> other], RetOption(other), <<>>)
        ELSE VoidCall("and_then(Option)", [other |-> other], RetOption(nullopt), <<>>)
    /\ VoidReturns(v_data)
    /\ VoidFrame

\* and_then(F&& f): std::invoke(f) is a statement of its own, and the
\* function returns std::nullopt on every path.
void_and_then ==
    /\ pc = "run"
    /\ \E f \in OptionThunks :
        IF Option_void_is_some(v_data)
        THEN VoidCall("and_then(F)", [f |-> f], RetOption(nullopt), <<Called0("f")>>)
        ELSE VoidCall("and_then(F)", [f |-> f], RetOption(nullopt), <<>>)
    /\ VoidReturns(v_data)
    /\ VoidFrame

void_filter ==
    /\ pc = "run"
    /\ \E predicate \in BoolThunks :
        IF Option_void_is_none(v_data)
        THEN VoidCall("filter", [predicate |-> predicate], RetOption(nullopt), <<>>)
        ELSE IF Invoke0(predicate)
        THEN VoidCall("filter", [predicate |-> predicate], RetOption(v_data),
                      <<Called0("predicate")>>)
        ELSE VoidCall("filter", [predicate |-> predicate], RetOption(nullopt),
                      <<Called0("predicate")>>)
    /\ VoidReturns(v_data)
    /\ VoidFrame

void_or_else_other ==
    /\ pc = "run"
    /\ \E other \in VoidOptions :
        IF Option_void_is_some(v_data)
        THEN VoidCall("or_else(Option)", [other |-> other], RetOption(v_data), <<>>)
        ELSE VoidCall("or_else(Option)", [other |-> other], RetOption(other), <<>>)
    /\ VoidReturns(v_data)
    /\ VoidFrame

void_or_else ==
    /\ pc = "run"
    /\ \E f \in VoidOptionThunks :
        IF Option_void_is_some(v_data)
        THEN VoidCall("or_else(F)", [f |-> f], RetOption(v_data), <<>>)
        ELSE VoidCall("or_else(F)", [f |-> f], RetOption(Invoke0(f)), <<Called0("f")>>)
    /\ VoidReturns(v_data)
    /\ VoidFrame

void_xor_else ==
    /\ pc = "run"
    /\ \E other \in VoidOptions :
        IF Option_void_is_some(v_data) = Option_void_is_some(other)
        THEN VoidCall("xor_else", [other |-> other], RetOption(nullopt), <<>>)
        ELSE IF Option_void_is_some(v_data)
        THEN VoidCall("xor_else", [other |-> other], RetOption(v_data), <<>>)
        ELSE VoidCall("xor_else", [other |-> other], RetOption(other), <<>>)
    /\ VoidReturns(v_data)
    /\ VoidFrame

void_insert ==
    /\ pc = "run"
    /\ VoidCall("insert", NoArg, RetSelf, <<>>)
    /\ VoidReturns(in_place(monostate))
    /\ VoidFrame

\* get_or_insert(): m_data.emplace() on every path
void_get_or_insert ==
    /\ pc = "run"
    /\ VoidCall("get_or_insert()", NoArg, RetVoid, <<>>)
    /\ VoidReturns(in_place(monostate))
    /\ VoidFrame

void_get_or_insert_invoke ==
    /\ pc = "run"
    /\ \E f \in Thunks :
        IF Option_void_is_some(v_data)
        THEN /\ VoidCall("get_or_insert(F)", [f |-> f], RetVoid, <<>>)
             /\ VoidReturns(v_data)
        ELSE /\ VoidCall("get_or_insert(F)", [f |-> f], RetVoid, <<Called0("f")>>)
             /\ VoidReturns(in_place(monostate))
    /\ VoidFrame

\* Option<void> ret(*this); m_data.reset(); return ret;
void_take ==
    /\ pc = "run"
    /\ VoidCall("take()", NoArg, RetOption(v_data), <<>>)
    /\ VoidReturns(nullopt)
    /\ VoidFrame

void_take_if ==
    /\ pc = "run"
    /\ \E predicate \in BoolThunks :
        IF Option_void_is_none(v_data)
        THEN /\ VoidCall("take(P)", [predicate |-> predicate], RetOption(nullopt), <<>>)
             /\ VoidReturns(v_data)
        ELSE IF Invoke0(predicate)
        THEN /\ VoidCall("take(P)", [predicate |-> predicate], RetOption(v_data),
                         <<Called0("predicate")>>)
             /\ VoidReturns(nullopt)
        ELSE /\ VoidCall("take(P)", [predicate |-> predicate], RetOption(nullopt),
                         <<Called0("predicate")>>)
             /\ VoidReturns(v_data)
    /\ VoidFrame

\* Option<void> ret(std::in_place); m_data.swap(ret.m_data); return ret;
void_replace ==
    /\ pc = "run"
    /\ VoidCall("replace", NoArg, RetOption(v_data), <<>>)
    /\ VoidReturns(in_place(monostate))
    /\ VoidFrame

void_clone ==
    /\ pc = "run"
    /\ VoidCall("clone", NoArg, RetOption(v_data), <<>>)
    /\ VoidReturns(v_data)
    /\ VoidFrame

void_as_ref ==
    /\ pc = "run"
    /\ IF Option_void_is_none(v_data)
       THEN VoidCall("as_ref", NoArg, RetOption(nullopt), <<>>)
       ELSE VoidCall("as_ref", NoArg, RetOption(in_place(monostate)), <<>>)
    /\ VoidReturns(v_data)
    /\ VoidFrame

\* operator=(std::nullopt_t), operator=(const Option&), operator=(Option&&)
void_assign ==
    /\ pc = "run"
    /\ \E other \in VoidOptions :
        /\ VoidCall("operator=", [other |-> other], RetSelf, <<>>)
        /\ VoidReturns(other)
    /\ VoidFrame

----------------------------------------------------------------------------
(* include/rs/result20.hpp: Result<T, E> and Result<void, E>               *)

\* std::variant<T, E>: value-initialised, built in place by index, built by the
\* type of the argument (the converting constructor and std::in_place_type).
variant_default == [index |-> 0, value |-> DefaultT]

variant_in_place_index(I, v) == [index |-> I, value |-> v]

variant_of_type(U, v) == [index |-> IF U = "T" THEN 0 ELSE 1, value |-> v]

\* std::variant<std::monostate, E>
void_variant_default == [index |-> 0, value |-> monostate]

\* operator== of std::variant: the same alternative and the same value
variant_equal(lhs, rhs) == lhs.index = rhs.index /\ lhs.value = rhs.value

\* return !m_data.index();
Result_is_ok(d) == ~(d.index # 0)

\* return !!m_data.index();
Result_is_err(d) == ~~(d.index # 0)

\* operator==(const Result&, const Result&): lhs.data() == rhs.data()
Result_equal(lhs, rhs) == variant_equal(lhs, rhs)

\* Ok(value) and Err(err) build with std::in_place_index<0> and <1>.
Ok(v) == variant_in_place_index(0, v)

Err_at_index_0(e) == variant_in_place_index(0, e)

Err(e) == variant_in_place_index(1, e)

ResultFrame == UNCHANGED <<config_vars, panic_vars, option_vars, same_TE>>

\* x is (re)built: x = Result<T, E>(...)
BuildX(by, data) ==
    /\ x_data' = data
    /\ x_built' = by
    /\ r_last' = [op |-> by, obj |-> "x", ret |-> RetVoid]
    /\ UNCHANGED <<w_data, w_built>>

\* w is (re)built: w = Result<void, E>(...)
BuildW(by, data) ==
    /\ w_data' = data
    /\ w_built' = by
    /\ r_last' = [op |-> by, obj |-> "w", ret |-> RetVoid]
    /\ UNCHANGED <<x_data, x_built>>

Result_ctor_default ==
    /\ pc = "run"
    /\ BuildX("Result()", variant_default)
    /\ ResultFrame

\* Result(U&& value) and Result(F&& err): m_data is built from the argument,
\* and the variant takes the alternative of the argument's type.
Result_ctor_value ==
    /\ pc = "run"
    /\ ~same_TE
    /\ \E v \in Val :
        \/ BuildX("Result(T)", variant_of_type("T", v))
        \/ BuildX("Result(E)", variant_of_type("E", v))
    /\ ResultFrame

\* Result(std::in_place_type_t<U>, args...), with !std::is_same_v<T, E>
Result_ctor_in_place_type ==
    /\ pc = "run"
    /\ ~same_TE
    /\ \E v \in Val :
        \/ BuildX("Result(in_place_type<T>)", variant_of_type("T", v))
        \/ BuildX("Result(in_place_type<E>)", variant_of_type("E", v))
    /\ ResultFrame

Result_ctor_in_place_index ==
    /\ pc = "run"
    /\ \E v \in Val :
        \/ BuildX("Result(in_place_index<0>)", variant_in_place_index(0, v))
        \/ BuildX("Result(in_place_index<1>)", variant_in_place_index(1, v))
    /\ ResultFrame

Result_Ok ==
    /\ pc = "run"
    /\ \E v \in Val : BuildX("Ok", Ok(v))
    /\ ResultFrame

Result_Err ==
    /\ pc = "run"
    /\ \E e \in Val : BuildX("Err", Err(e))
    /\ ResultFrame

void_Result_ctor_default ==
    /\ pc = "run"
    /\ BuildW("Result()", void_variant_default)
    /\ ResultFrame

\* Result(F&& err): m_data(std::forward<F>(err)), the E alternative
void_Result_ctor_err ==
    /\ pc = "run"
    /\ \E e \in Val : BuildW("Result(E)", variant_of_type("E", e))
    /\ ResultFrame

void_Result_ctor_in_place_type ==
    /\ pc = "run"
    /\ \/ BuildW("Result(in_place_type<void>)", void_variant_default)
       \/ \E e \in Val : BuildW("Result(in_place_type<E>)", variant_of_type("E", e))
    /\ ResultFrame

void_Result_ctor_in_place_index ==
    /\ pc = "run"
    /\ \/ BuildW("Result(in_place_index<0>)", void_variant_default)
       \/ \E e \in Val : BuildW("Result(in_place_index<1>)", variant_in_place_index(1, e))
    /\ ResultFrame

\* x.is_ok(), x.is_err(), w.is_ok(), w.is_err()
Result_is_ok_call ==
    /\ pc = "run"
    /\ \/ r_last' = [op |-> "is_ok", obj |-> "x", ret |-> RetBool(Result_is_ok(x_data))]
       \/ r_last' = [op |-> "is_ok", obj |-> "w", ret |-> RetBool(Result_is_ok(w_data))]
    /\ UNCHANGED <<x_data, x_built, w_data, w_built>>
    /\ ResultFrame

Result_is_err_call ==
    /\ pc = "run"
    /\ \/ r_last' = [op |-> "is_err", obj |-> "x", ret |-> RetBool(Result_is_err(x_data))]
       \/ r_last' = [op |-> "is_err", obj |-> "w", ret |-> RetBool(Result_is_err(w_data))]
    /\ UNCHANGED <<x_data, x_built, w_data, w_built>>
    /\ ResultFrame

\* x == Ok(v) and x == Err(e)
Result_compare ==
    /\ pc = "run"
    /\ \E v \in Val :
        \/ r_last' = [op |-> "operator==", obj |-> "x", rhs_built |-> "Ok", rhs |-> Ok(v),
                      ret |-> RetBool(Result_equal(x_data, Ok(v)))]
        \/ r_last' = [op |-> "operator==", obj |-> "x", rhs_built |-> "Err", rhs |-> Err(v),
                      ret |-> RetBool(Result_equal(x_data, Err(v)))]
    /\ UNCHANGED <<x_data, x_built, w_data, w_built>>
    /\ ResultFrame

----------------------------------------------------------------------------
(* include/rs/result20.hpp: the operations of Result<T, E> and             *)
(* Result<void, E>                                                         *)

\* The Result values an argument or a callable can produce.
Results == { Ok(v) : v \in Val } \cup { Err(e) : e \in Val }

\* Callables F: T -> Result<U, E> and O: E -> Result<T, F>
ResultFns == { [v \in Val |-> Ok(v)],
               [v \in Val |-> Err(v)],
               [v \in Val |-> IF v = 0 THEN Err(v) ELSE Ok(v - 1)] }

RetOfResult(d) == RetResult(d.index, d.value)

ResultAfterMove_by_const(d, moving) ==
    { [index |-> d.index, value |-> u] : u \in MovedFrom(d.value) }

\* std::move(get<I>()) in the non-const overloads: the alternative stays
\* active and its payload is left moved-from.
ResultAfterMove(d, moving) ==
    IF moving THEN { [index |-> d.index, value |-> u] : u \in MovedFrom(d.value) }
              ELSE {d}

\* std::format("{}", value) of a payload
FormatValue(v) == FormatNat(v)

call_panic_with_TE_uncheck_msg_only(I, msg, sep, d) == msg

\* Result<T, E>::call_panic_with_TE_uncheck<I>: the message handed to panic.
\* get<I>() on the other alternative is itself fatal.
call_panic_with_TE_uncheck(I, msg, sep, d) ==
    IF formattable[I]
    THEN IF d.index = I THEN msg \o sep \o FormatValue(d.value)
                        ELSE "Invaild access to Result"
    ELSE msg

\* Result<void, E>::call_panic_with_TE_uncheck<I>: formats only for I == 1.
void_call_panic_with_TE_uncheck(I, msg, sep, d) ==
    IF formattable[1] /\ I = 1
    THEN IF d.index = I THEN msg \o sep \o FormatValue(d.value)
                        ELSE "Invaild access to Result"
    ELSE msg

ResultCall(op, moving, arg, ret, calls) ==
    r_last' = [op |-> op, obj |-> "x", moving |-> moving, pre |-> x_data,
               arg |-> arg, ret |-> ret, calls |-> calls]

ResultReturns(after) ==
    /\ x_data' \in after
    /\ NoPanic
    /\ UNCHANGED <<x_built, w_data, w_built>>

ResultPanics(message) ==
    /\ EnterPanic(message)
    /\ UNCHANGED <<x_data, x_built, w_data, w_built>>

VoidResultCall(op, moving, arg, ret, calls) ==
    r_last' = [op |-> op, obj |-> "w", moving |-> moving, pre |-> w_data,
               arg |-> arg, ret |-> ret, calls |-> calls]

VoidResultReturns(after) ==
    /\ w_data' \in after
    /\ NoPanic
    /\ UNCHANGED <<x_data, x_built, w_built>>

ResultOpFrame == UNCHANGED <<config_vars, option_vars, same_TE>>

Result_map_drops_value ==
    /\ pc = "run"
    /\ \E func \in Fns, moving \in BOOLEAN :
        IF Result_is_err(x_data)
        THEN ResultCall("map", moving, [func |-> func],
                        RetResult(1, x_data.value), <<>>)
        ELSE ResultCall("map", moving, [func |-> func],
                        RetResult(0, x_data.value), <<Called("func", x_data.value)>>)
    /\ ResultReturns({x_data})
    /\ ResultOpFrame

\* map(F&& func): Result<T, E> -> Result<U, E>
Result_map ==
    /\ pc = "run"
    /\ \E func \in Fns, moving \in BOOLEAN :
        /\ IF Result_is_err(x_data)
           THEN ResultCall("map", moving, [func |-> func],
                           RetResult(1, x_data.value), <<>>)
           ELSE ResultCall("map", moving, [func |-> func],
                           RetResult(0, Invoke(func, x_data.value)),
                           <<Called("func", x_data.value)>>)
        /\ ResultReturns(ResultAfterMove(x_data, moving))
    /\ ResultOpFrame

\* map_err(O&& op): Result<T, E> -> Result<T, F>
Result_map_err ==
    /\ pc = "run"
    /\ \E op \in Fns, moving \in BOOLEAN :
        /\ IF Result_is_ok(x_data)
           THEN ResultCall("map_err", moving, [op |-> op],
                           RetResult(0, x_data.value), <<>>)
           ELSE ResultCall("map_err", moving, [op |-> op],
                           RetResult(1, Invoke(op, x_data.value)),
                           <<Called("op", x_data.value)>>)
        /\ ResultReturns(ResultAfterMove(x_data, moving))
    /\ ResultOpFrame

\* and_then(Result<U, E> res): a success returns res and moves nothing.
Result_and_then_res ==
    /\ pc = "run"
    /\ \E res \in Results, moving \in BOOLEAN :
        IF Result_is_ok(x_data)
        THEN /\ ResultCall("and_then(Result)", moving, [res |-> res],
                           RetOfResult(res), <<>>)
             /\ ResultReturns({x_data})
        ELSE /\ ResultCall("and_then(Result)", moving, [res |-> res],
                           RetResult(1, x_data.value), <<>>)
             /\ ResultReturns(ResultAfterMove(x_data, moving))
    /\ ResultOpFrame

Result_and_then_unguarded ==
    /\ pc = "run"
    /\ \E op \in ResultFns, moving \in BOOLEAN :
        /\ ResultCall("and_then(F)", moving, [op |-> op],
                      RetOfResult(Invoke(op, x_data.value)),
                      <<Called("op", x_data.value)>>)
        /\ ResultReturns(ResultAfterMove(x_data, moving))
    /\ ResultOpFrame

\* and_then(F&& op): F maps T to Result<U, E>
Result_and_then ==
    /\ pc = "run"
    /\ \E op \in ResultFns, moving \in BOOLEAN :
        /\ IF Result_is_ok(x_data)
           THEN ResultCall("and_then(F)", moving, [op |-> op],
                           RetOfResult(Invoke(op, x_data.value)),
                           <<Called("op", x_data.value)>>)
           ELSE ResultCall("and_then(F)", moving, [op |-> op],
                           RetResult(1, x_data.value), <<>>)
        /\ ResultReturns(ResultAfterMove(x_data, moving))
    /\ ResultOpFrame

\* or_else(Result<T, F> res): a failure returns res and moves nothing.
Result_or_else_res ==
    /\ pc = "run"
    /\ \E res \in Results, moving \in BOOLEAN :
        IF Result_is_err(x_data)
        THEN /\ ResultCall("or_else(Result)", moving, [res |-> res],
                           RetOfResult(res), <<>>)
             /\ ResultReturns({x_data})
        ELSE /\ ResultCall("or_else(Result)", moving, [res |-> res],
                           RetResult(0, x_data.value), <<>>)
             /\ ResultReturns(ResultAfterMove(x_data, moving))
    /\ ResultOpFrame

Result_or_else_unguarded ==
    /\ pc = "run"
    /\ \E op \in ResultFns, moving \in BOOLEAN :
        /\ ResultCall("or_else(F)", moving, [op |-> op],
                      RetOfResult(Invoke(op, x_data.value)),
                      <<Called("op", x_data.value)>>)
        /\ ResultReturns(ResultAfterMove(x_data, moving))
    /\ ResultOpFrame

\* or_else(O&& op): O maps E to Result<T, F>
Result_or_else ==
    /\ pc = "run"
    /\ \E op \in ResultFns, moving \in BOOLEAN :
        /\ IF Result_is_err(x_data)
           THEN ResultCall("or_else(F)", moving, [op |-> op],
                           RetOfResult(Invoke(op, x_data.value)),
                           <<Called("op", x_data.value)>>)
           ELSE ResultCall("or_else(F)", moving, [op |-> op],
                           RetResult(0, x_data.value), <<>>)
        /\ ResultReturns(ResultAfterMove(x_data, moving))
    /\ ResultOpFrame

\* x.or_else(f).or_else(g): the Result that or_else(f) returned is a
\* temporary, and the non-const or_else is called on it.  The record of the
\* call holds the temporary as its receiver.
Result_or_else_returned ==
    /\ pc = "run"
    /\ r_last.op = "or_else(F)"
    /\ LET tmp == [index |-> r_last.ret.index, value |-> r_last.ret.value]
           Record(op, ret, calls) ==
               [op |-> "or_else.or_else", obj |-> "tmp", moving |-> TRUE, pre |-> tmp,
                arg |-> [op |-> op], ret |-> ret, calls |-> calls]
       IN  \E op \in ResultFns :
               IF Result_is_err(tmp)
               THEN r_last' = Record(op, RetOfResult(Invoke(op, tmp.value)),
                                     <<Called("op", tmp.value)>>)
               ELSE r_last' = Record(op, RetResult(0, tmp.value), <<>>)
    /\ ResultReturns({x_data})
    /\ ResultOpFrame

Result_expect ==
    /\ pc = "run"
    /\ \E msg \in Msgs, moving \in BOOLEAN :
        IF Result_is_ok(x_data)
        THEN /\ ResultCall("expect", moving, [msg |-> msg], RetT(x_data.value), <<>>)
             /\ ResultReturns(ResultAfterMove(x_data, moving))
        ELSE /\ ResultCall("expect", moving, [msg |-> msg], NoReturn, <<>>)
             /\ ResultPanics(call_panic_with_TE_uncheck(1, msg, ": ", x_data))
    /\ ResultOpFrame

Result_unwrap ==
    /\ pc = "run"
    /\ \E moving \in BOOLEAN :
        IF Result_is_ok(x_data)
        THEN /\ ResultCall("unwrap", moving, NoArg, RetT(x_data.value), <<>>)
             /\ ResultReturns(ResultAfterMove(x_data, moving))
        ELSE /\ ResultCall("unwrap", moving, NoArg, NoReturn, <<>>)
             /\ ResultPanics(call_panic_with_TE_uncheck(1, "", "", x_data))
    /\ ResultOpFrame

Result_expect_err ==
    /\ pc = "run"
    /\ \E msg \in Msgs, moving \in BOOLEAN :
        IF Result_is_err(x_data)
        THEN /\ ResultCall("expect_err", moving, [msg |-> msg], RetT(x_data.value), <<>>)
             /\ ResultReturns(ResultAfterMove(x_data, moving))
        ELSE /\ ResultCall("expect_err", moving, [msg |-> msg], NoReturn, <<>>)
             /\ ResultPanics(call_panic_with_TE_uncheck(0, msg, ": ", x_data))
    /\ ResultOpFrame

Result_unwrap_err ==
    /\ pc = "run"
    /\ \E moving \in BOOLEAN :
        IF Result_is_err(x_data)
        THEN /\ ResultCall("unwrap_err", moving, NoArg, RetT(x_data.value), <<>>)
             /\ ResultReturns(ResultAfterMove(x_data, moving))
        ELSE /\ ResultCall("unwrap_err", moving, NoArg, NoReturn, <<>>)
             /\ ResultPanics(call_panic_with_TE_uncheck(0, "", "", x_data))
    /\ ResultOpFrame

\* Result<void, E>::expect(msg) const
void_Result_expect ==
    /\ pc = "run"
    /\ \E msg \in Msgs :
        IF Result_is_ok(w_data)
        THEN /\ VoidResultCall("expect", FALSE, [msg |-> msg], RetVoid, <<>>)
             /\ VoidResultReturns({w_data})
        ELSE /\ VoidResultCall("expect", FALSE, [msg |-> msg], NoReturn, <<>>)
             /\ ResultPanics(void_call_panic_with_TE_uncheck(1, msg, ": ", w_data))
    /\ ResultOpFrame

\* Result<void, E>::unwrap() const
void_Result_unwrap ==
    /\ pc = "run"
    /\ IF Result_is_ok(w_data)
       THEN /\ VoidResultCall("unwrap", FALSE, NoArg, RetVoid, <<>>)
            /\ VoidResultReturns({w_data})
       ELSE /\ VoidResultCall("unwrap", FALSE, NoArg, NoReturn, <<>>)
            /\ ResultPanics(void_call_panic_with_TE_uncheck(1, "", "", w_data))
    /\ ResultOpFrame

void_Result_expect_err ==
    /\ pc = "run"
    /\ \E msg \in Msgs, moving \in BOOLEAN :
        IF Result_is_err(w_data)
        THEN /\ VoidResultCall("expect_err", moving, [msg |-> msg],
                               RetT(w_data.value), <<>>)
             /\ VoidResultReturns(ResultAfterMove(w_data, moving))
        ELSE /\ VoidResultCall("expect_err", moving, [msg |-> msg], NoReturn, <<>>)
             /\ ResultPanics(void_call_panic_with_TE_uncheck(0, msg, ": ", w_data))
    /\ ResultOpFrame

void_Result_unwrap_err ==
    /\ pc = "run"
    /\ \E moving \in BOOLEAN :
        IF Result_is_err(w_data)
        THEN /\ VoidResultCall("unwrap_err", moving, NoArg, RetT(w_data.value), <<>>)
             /\ VoidResultReturns(ResultAfterMove(w_data, moving))
        ELSE /\ VoidResultCall("unwrap_err", moving, NoArg, NoReturn, <<>>)
             /\ ResultPanics(void_call_panic_with_TE_uncheck(0, "", "", w_data))
    /\ ResultOpFrame

\* std::ref(get<I>()) / std::cref(get<I>()): a reference to the payload of
\* alternative I of m_data
RefToAlternative(I, const) == [ref |-> "std::get<I>(m_data)", index |-> I, const |-> const]

\* as_ref(): the non-const receiver gives Result<reference_wrapper<T>,
\* reference_wrapper<E>>, the const receiver references to const.
Result_as_ref ==
    /\ pc = "run"
    /\ \E moving \in BOOLEAN :
        IF Result_is_ok(x_data)
        THEN ResultCall("as_ref", moving, NoArg,
                        RetResult(0, RefToAlternative(0, ~moving)), <<>>)
        ELSE ResultCall("as_ref", moving, NoArg,
                        RetResult(1, RefToAlternative(1, ~moving)), <<>>)
    /\ ResultReturns({x_data})
    /\ ResultOpFrame

\* x.as_ref().unwrap().get() = value, or unwrap_err() on a failure: the
\* assignment goes to the alternative the reference refers to.
Result_as_ref_write ==
    /\ pc = "run"
    /\ r_last.op = "as_ref"
    /\ r_last.obj = "x"
    /\ LET view == r_last.ret.value
       IN  /\ ~view.const
           /\ \E value \in Val :
                /\ r_last' = [op |-> "as_ref.write", obj |-> "x", moving |-> TRUE,
                              pre |-> x_data, arg |-> [value |-> value],
                              ret |-> RetVoid, calls |-> <<>>]
                /\ ResultReturns({[index |-> view.index, value |-> value]})
    /\ ResultOpFrame

\* clone(): return *this
Result_clone ==
    /\ pc = "run"
    /\ ResultCall("clone", FALSE, NoArg, RetOfResult(x_data), <<>>)
    /\ ResultReturns({x_data})
    /\ ResultOpFrame


----------------------------------------------------------------------------
(* include/rs/result20.hpp: access to the alternatives, and the            *)
(* conversion to Option                                                    *)

\* The value a get returns: a reference to alternative I of m_data.
RetAlternativeRef(I, const) == [kind |-> "ref", value |-> RefToAlternative(I, const)]

\* std::get<I>(m_data) throws std::bad_variant_access unless alternative I
\* is the active one.
variant_get_throws(I, d) == d.index # I

Result_get_uncaught(op, I, moving) ==
    /\ ResultCall(op, moving, [alt |-> I], RetAlternativeRef(I, ~moving), <<>>)
    /\ ResultReturns({x_data})

\* get(): try { return std::get<I>(m_data); }
\*        catch(...) { panic("Invaild access to Result"); }
Result_get(op, I, moving) ==
    IF variant_get_throws(I, x_data)
    THEN /\ ResultCall(op, moving, [alt |-> I], NoReturn, <<>>)
         /\ ResultPanics("Invaild access to Result")
    ELSE /\ ResultCall(op, moving, [alt |-> I], RetAlternativeRef(I, ~moving), <<>>)
         /\ ResultReturns({x_data})

\* get<U>(), with !std::is_same_v<T, E>: U is T or E
Result_get_type ==
    /\ pc = "run"
    /\ ~same_TE
    /\ \E U \in {"T", "E"}, moving \in BOOLEAN :
        Result_get("get<U>", variant_of_type(U, DefaultT).index, moving)
    /\ ResultOpFrame

\* get<I>(), I is 0 or 1
Result_get_index ==
    /\ pc = "run"
    /\ \E I \in {0, 1}, moving \in BOOLEAN : Result_get("get<I>", I, moving)
    /\ ResultOpFrame

\* Result<void, E>::get(): for void and for index 0,
\*     try { (void) std::get<0>(m_data); return; }
\* and for E and index 1, try { return std::get<1>(m_data); }, each with
\*     catch(...) { panic("Invaild access to Result"); }
void_Result_get(op, I, moving) ==
    IF variant_get_throws(I, w_data)
    THEN /\ VoidResultCall(op, moving, [alt |-> I], NoReturn, <<>>)
         /\ ResultPanics("Invaild access to Result")
    ELSE /\ VoidResultCall(op, moving, [alt |-> I],
                           IF I = 0 THEN RetVoid ELSE RetAlternativeRef(1, ~moving),
                           <<>>)
         /\ VoidResultReturns({w_data})

\* get<U>(): U is void or E
void_Result_get_type ==
    /\ pc = "run"
    /\ \E U \in {"void", "E"}, moving \in BOOLEAN :
        void_Result_get("get<U>", IF U = "void" THEN 0 ELSE 1, moving)
    /\ ResultOpFrame

void_Result_get_index ==
    /\ pc = "run"
    /\ \E I \in {0, 1}, moving \in BOOLEAN : void_Result_get("get<I>", I, moving)
    /\ ResultOpFrame

Result_ok_unguarded ==
    /\ pc = "run"
    /\ ResultCall("ok", TRUE, NoArg, RetOption(<<x_data.value>>), <<>>)
    /\ ResultReturns(ResultAfterMove(x_data, TRUE))
    /\ ResultOpFrame

\* ok(): if (is_err()) return std::nullopt;
\*       return Option<T>(std::in_place, std::move(get<0>()));
Result_ok ==
    /\ pc = "run"
    /\ IF Result_is_err(x_data)
       THEN /\ ResultCall("ok", TRUE, NoArg, RetOption(<<>>), <<>>)
            /\ ResultReturns({x_data})
       ELSE /\ ResultCall("ok", TRUE, NoArg, RetOption(<<x_data.value>>), <<>>)
            /\ ResultReturns(ResultAfterMove(x_data, TRUE))
    /\ ResultOpFrame

\* err(): if (is_ok()) return std::nullopt;
\*        return Option<E>(std::in_place, std::move(get<1>()));
Result_err ==
    /\ pc = "run"
    /\ IF Result_is_ok(x_data)
       THEN /\ ResultCall("err", TRUE, NoArg, RetOption(<<>>), <<>>)
            /\ ResultReturns({x_data})
       ELSE /\ ResultCall("err", TRUE, NoArg, RetOption(<<x_data.value>>), <<>>)
            /\ ResultReturns(ResultAfterMove(x_data, TRUE))
    /\ ResultOpFrame

\* x.ok().unwrap() and x.err().unwrap(): unwrap() of the Option that ok() or
\* err() has returned.
Result_to_option_unwrap ==
    /\ pc = "run"
    /\ r_last.op \in {"ok", "err"}
    /\ LET tmp == r_last.ret.data
           Record(ret) ==
               [op |-> r_last.op \o ".unwrap", obj |-> "tmp", moving |-> TRUE,
                pre |-> r_last.pre, arg |-> [option |-> tmp], ret |-> ret,
                calls |-> <<>>]
       IN  IF Option_is_some(tmp)
           THEN /\ r_last' = Record(RetT(Deref(tmp)))
                /\ ResultReturns({x_data})
           ELSE /\ r_last' = Record(NoReturn)
                /\ ResultPanics(call_panic_with_TN_uncheck_1("", ""))
    /\ ResultOpFrame


----------------------------------------------------------------------------
(* include/rs/result20.hpp: result_helper<E>                               *)

\* What a call of f(args...) does: it returns a value, or it throws an
\* exception of type E, of a class derived from E, or of an unrelated type.
Returned(v) == [kind |-> "return", value |-> v]
Thrown(type, v) == [kind |-> "throw", type |-> type, value |-> v]

ThrowingFns == { [v \in Val |-> Returned(v)],
                 [v \in Val |-> Thrown("E", v)],
                 [v \in Val |-> IF v = 0 THEN Thrown("other", v) ELSE Returned(v - 1)],
                 [v \in Val |-> IF v = 0 THEN Thrown("derived from E", v)
                                         ELSE Thrown("other", v)] }

\* catch (E& e) matches an exception of type E or of a class derived from E.
catch_E(exception) == exception.type \in {"E", "derived from E"}

\* The exception leaves the function: its caller sees it.
Propagates(exception) == [kind |-> "throw", exception |-> exception]

HelperCall(op, f, v, ret) ==
    r_last' = [op |-> op, obj |-> "result_helper", moving |-> FALSE,
               pre |-> Invoke(f, v), arg |-> [f |-> f, args |-> <<v>>],
               ret |-> ret, calls |-> <<Called("f", v)>>]

\* result_helper<E>::invoke(f, args...):
\*     try { return Result<Type, E>(std::in_place_index<0>, std::invoke(f, args...)); }
\*     catch (E& e) { return Result<Type, E>(std::in_place_index<1>, std::move(e)); }
result_helper_invoke ==
    /\ pc = "run"
    /\ \E f \in ThrowingFns, v \in Val :
        LET outcome == Invoke(f, v)
        IN  IF outcome.kind = "return"
            THEN HelperCall("invoke", f, v,
                    RetOfResult(variant_in_place_index(0, outcome.value)))
            ELSE IF catch_E(outcome)
            THEN HelperCall("invoke", f, v,
                    RetOfResult(variant_in_place_index(1, outcome.value)))
            ELSE HelperCall("invoke", f, v, Propagates(outcome))
    /\ ResultReturns({x_data})
    /\ ResultOpFrame

result_helper_invoke_else_propagate ==
    /\ pc = "run"
    /\ \E f \in ThrowingFns, v \in Val :
        LET outcome == Invoke(f, v)
        IN  IF outcome.kind = "return"
            THEN HelperCall("invoke_else_panic", f, v,
                    RetOfResult(variant_in_place_index(0, outcome.value)))
            ELSE IF catch_E(outcome)
            THEN HelperCall("invoke_else_panic", f, v,
                    RetOfResult(variant_in_place_index(1, outcome.value)))
            ELSE HelperCall("invoke_else_panic", f, v, Propagates(outcome))
    /\ ResultReturns({x_data})
    /\ ResultOpFrame

\* The message invoke_else_panic hands to panic; the source writes a
\* backquote where this text has an apostrophe.
invoke_else_panic_message == "panics after call 'result_helper::invoke_else_panic'"

\* result_helper<E>::invoke_else_panic(f, args...): as invoke, and then
\*     catch (...) { panic("panics after call ..."); }
result_helper_invoke_else_panic ==
    /\ pc = "run"
    /\ \E f \in ThrowingFns, v \in Val :
        LET outcome == Invoke(f, v)
        IN  IF outcome.kind = "return"
            THEN /\ HelperCall("invoke_else_panic", f, v,
                        RetOfResult(variant_in_place_index(0, outcome.value)))
                 /\ ResultReturns({x_data})
            ELSE IF catch_E(outcome)
            THEN /\ HelperCall("invoke_else_panic", f, v,
                        RetOfResult(variant_in_place_index(1, outcome.value)))
                 /\ ResultReturns({x_data})
            ELSE /\ HelperCall("invoke_else_panic", f, v, NoReturn)
                 /\ ResultPanics(invoke_else_panic_message)
    /\ ResultOpFrame


\* result_helper<E>::invoke(f, s).unwrap_or_default(): unwrap_or_default()
\* of the Result that invoke or invoke_else_panic has returned,
\*     if (is_ok()) return std::move(get<0>());
\*     return T();
result_helper_unwrap_or_default ==
    /\ pc = "run"
    /\ r_last.obj = "result_helper"
    /\ r_last.ret.kind = "Result"
    /\ LET tmp == [index |-> r_last.ret.index, value |-> r_last.ret.value]
       IN  r_last' = [op |-> r_last.op \o ".unwrap_or_default", obj |-> "tmp",
                      moving |-> TRUE, pre |-> tmp, arg |-> r_last.arg,
                      ret |-> RetT(IF Result_is_ok(tmp) THEN tmp.value ELSE DefaultT),
                      calls |-> <<>>]
    /\ ResultReturns({x_data})
    /\ ResultOpFrame


----------------------------------------------------------------------------
(* src/format/span.hpp: std::formatter<std::span<T, Extend>, CharT>        *)

MaxSpecLen == 5
MaxCapacity == 2

\* The characters of a format spec.  A spec ends at the '}' that closes the
\* replacement field, and the parse context runs on to that '}'.
SpecChars == {"<", ">", "v", "\\", "|", "a"}
FormatSpecs == UNION { [1..n -> SpecChars] : n \in 0..MaxSpecLen }
ParseContext(spec) == spec \o <<"}">>

\* The spans that are formatted: empty, one element, two elements.
Spans == { <<>>, <<MaxVal>>, <<0, MaxVal>> }

\* No formatter object exists.
no_formatter == [phase |-> "none"]

\* A std::basic_string_view: the range [begin, end) of two iterators.  An
\* iterator into storage is a position in the buffer storage had when the
\* iterator was taken.
View(area, buf, end_buf, first, past) ==
    [area |-> area, buf |-> buf, end_buf |-> end_buf, first |-> first, last |-> past]

\* constexpr static CharT default_separator[3], default_border_begin[2],
\* default_border_end[2]
default_separator == <<",", " ">>
default_border_begin == <<"[">>
default_border_end == <<"]">>

\* What a read through an invalidated iterator can find.
Garbage == <<"?">>

\* The members of a default-constructed formatter.  capacity is
\* storage.capacity(), which the library chooses.
formatter_members(capacity) ==
    [separator    |-> View("default_separator", 0, 0, 0, 2),
     border_begin |-> View("default_border_begin", 0, 0, 0, 1),
     border_end   |-> View("default_border_end", 0, 0, 0, 1),
     storage      |-> <<>>,
     capacity     |-> capacity,
     buf          |-> 1,
     element_spec |-> <<>>,
     written      |-> [separator |-> default_separator,
                       border_begin |-> default_border_begin,
                       border_end |-> default_border_end]]

\* storage.push_back(c): when size() == capacity() the characters move to a
\* new, larger buffer, and every iterator into the old one is invalidated.
push_back(f, c) ==
    IF Len(f.storage) = f.capacity
    THEN [f EXCEPT !.storage = Append(f.storage, c),
                   !.capacity = IF f.capacity = 0 THEN 1 ELSE 2 * f.capacity,
                   !.buf = f.buf + 1]
    ELSE [f EXCEPT !.storage = Append(f.storage, c)]

\* The while loop of span_text_format; text is what it has pushed.
RECURSIVE span_text_loop(_, _, _, _, _, _)
span_text_loop(indicator, ctx, iter, ignore, f, text) ==
    IF iter > Len(ctx)
    THEN [iter |-> iter, f |-> f, text |-> text]
    ELSE IF ctx[iter] = indicator /\ ~ignore
    THEN [iter |-> iter + 1, f |-> f, text |-> text]
    ELSE IF ctx[iter] = "\\" /\ ~ignore
    THEN span_text_loop(indicator, ctx, iter + 1, TRUE, f, text)
    ELSE span_text_loop(indicator, ctx, iter + 1, FALSE, push_back(f, ctx[iter]),
                        Append(text, ctx[iter]))

\* span_text_format(indicator, view, ctx, iter):
\*     auto iter_begin = storage.end();
\*     while (...) { ... storage.push_back(*iter); ... }
\*     view = std::basic_string_view<CharT>(iter_begin, storage.end());
span_text_format(indicator, aim, ctx, iter, f) ==
    LET r == span_text_loop(indicator, ctx, iter, FALSE, f, <<>>)
        view == View("storage", f.buf, r.f.buf,
                     Len(f.storage), Len(r.f.storage))
    IN  [iter |-> r.iter,
         f |-> [r.f EXCEPT ![aim] = view, !.written[aim] = r.text]]

\* span_format_parse(ctx, iter): the switch on *iter
RECURSIVE span_format_parse(_, _, _)
span_format_parse(ctx, iter, f) ==
    IF iter > Len(ctx)
    THEN [iter |-> iter, element_format |-> FALSE, f |-> f]
    ELSE IF ctx[iter] = "|"
    THEN [iter |-> iter + 1, element_format |-> TRUE, f |-> f]
    ELSE IF ctx[iter] = "}"
    THEN [iter |-> iter, element_format |-> FALSE, f |-> f]
    ELSE IF ctx[iter] = "<"
    THEN LET r == span_text_format("<", "border_begin", ctx, iter + 1, f)
         IN  span_format_parse(ctx, r.iter, r.f)
    ELSE IF ctx[iter] = ">"
    THEN LET r == span_text_format(">", "border_end", ctx, iter + 1, f)
         IN  span_format_parse(ctx, r.iter, r.f)
    ELSE IF ctx[iter] = "v"
    THEN LET r == span_text_format("v", "separator", ctx, iter + 1, f)
         IN  span_format_parse(ctx, r.iter, r.f)
    ELSE span_format_parse(ctx, iter + 1, f)

\* element_formatter.parse: the element's formatter reads its spec and
\* returns the position of the '}' that ends it.
RECURSIVE element_formatter_parse(_, _)
element_formatter_parse(ctx, iter) ==
    IF iter > Len(ctx) \/ ctx[iter] = "}"
    THEN iter
    ELSE element_formatter_parse(ctx, iter + 1)

\* element_formatter.format(value[i], ctx): the element, rendered under the
\* spec its formatter has parsed
element_formatter_format(element, spec) == [element |-> element, spec |-> spec]

\* std::ranges::copy of a string view: the characters it writes
Characters(text) == [i \in 1..Len(text) |-> [char |-> text[i]]]

\* The characters a string view designates.  One whose iterators were
\* invalidated reads whatever is at the old place: the characters that were
\* there, or something else.
ViewText(view, f) ==
    IF view.area = "default_separator" THEN {default_separator}
    ELSE IF view.area = "default_border_begin" THEN {default_border_begin}
    ELSE IF view.area = "default_border_end" THEN {default_border_end}
    ELSE IF view.buf = f.buf /\ view.end_buf = f.buf
    THEN {SubSeq(f.storage, view.first + 1, view.last)}
    ELSE IF view.buf = view.end_buf
    THEN {SubSeq(f.storage, view.first + 1, view.last), Garbage}
    ELSE {Garbage}

\* The for loop of format, from element i on
RECURSIVE format_elements(_, _, _, _)
format_elements(value, i, separator, spec) ==
    IF ~(i < Len(value))
    THEN <<>>
    ELSE <<element_formatter_format(value[i + 1], spec)>>
         \o (IF i # Len(value) - 1 THEN Characters(separator) ELSE <<>>)
         \o format_elements(value, i + 1, separator, spec)

FormatFrame ==
    UNCHANGED <<cxx23, enable_traceback, formattable, panic_vars, option_vars,
                result_vars>>

\* parse(ctx)
formatter_parse ==
    /\ fmt.phase = "constructed"
    /\ LET ctx == ParseContext(fmt.spec)
           r == span_format_parse(ctx, 1, fmt.members)
       IN  IF ~r.element_format
           THEN fmt' = [fmt EXCEPT !.phase = "parsed", !.members = r.f,
                                   !.parse_end = r.iter]
           ELSE LET end == element_formatter_parse(ctx, r.iter)
                IN  fmt' = [fmt EXCEPT
                               !.phase = "parsed",
                               !.members = [r.f EXCEPT !.element_spec =
                                               SubSeq(ctx, r.iter, end - 1)],
                               !.parse_end = end]
    /\ FormatFrame

\* format(value, ctx)
formatter_format ==
    /\ fmt.phase = "parsed"
    /\ \E value \in Spans :
       \E begin \in ViewText(fmt.members.border_begin, fmt.members),
          sep \in ViewText(fmt.members.separator, fmt.members),
          end \in ViewText(fmt.members.border_end, fmt.members) :
            fmt' = [fmt EXCEPT
                       !.phase = "formatted",
                       !.value = value,
                       !.out = Characters(begin)
                               \o format_elements(value, 0, sep,
                                                  fmt.members.element_spec)
                               \o Characters(end)]
    /\ FormatFrame


----------------------------------------------------------------------------
(* include/rs/result20.hpp: Result<void, E>::and_then                      *)

\* Callables without parameters, returning a Result<U, E>.
ResultThunks == { Thunk(r) : r \in Results }

\* An expression the language does not allow: a call with an operand of
\* type void.
IllFormed == [kind |-> "ill-formed"]

\* Result<void, E>::and_then(Result<U, E> res):
\*     if (is_ok()) return res;
\*     return Result<U, E>(std::in_place_index<1>, get<1>());
void_Result_and_then_res ==
    /\ pc = "run"
    /\ \E res \in Results, moving \in BOOLEAN :
        IF Result_is_ok(w_data)
        THEN /\ VoidResultCall("and_then(Result)", moving, [res |-> res],
                               RetOfResult(res), <<>>)
             /\ VoidResultReturns({w_data})
        ELSE /\ VoidResultCall("and_then(Result)", moving, [res |-> res],
                               RetResult(1, w_data.value), <<>>)
             /\ VoidResultReturns(ResultAfterMove(w_data, moving))
    /\ ResultOpFrame

\* Result<void, E>::and_then(F&& op).  The const overload:
\*     if (is_ok()) return std::invoke(std::forward<F>(op));
\*     return Result<U, E>(std::in_place_index<1>, get<1>());
\* The non-const overload:
\*     if (is_ok()) return std::invoke(std::forward<F>(op), std::move(get<0>()));
\*     return Result<U, E>();
\* get<0>() is of type void, so the first return of the non-const overload
\* is no valid call of op.
void_Result_and_then ==
    /\ pc = "run"
    /\ \E op \in ResultThunks, moving \in BOOLEAN :
        IF moving
        THEN IF Result_is_ok(w_data)
             THEN VoidResultCall("and_then(F)", moving, [op |-> op], IllFormed,
                                 <<Called("op", "std::move(get<0>())")>>)
             ELSE VoidResultCall("and_then(F)", moving, [op |-> op],
                                 RetOfResult(variant_default), <<>>)
        ELSE IF Result_is_ok(w_data)
             THEN VoidResultCall("and_then(F)", moving, [op |-> op],
                                 RetOfResult(Invoke0(op)), <<Called0("op")>>)
             ELSE VoidResultCall("and_then(F)", moving, [op |-> op],
                                 RetResult(1, w_data.value), <<>>)
    /\ VoidResultReturns({w_data})
    /\ ResultOpFrame


----------------------------------------------------------------------------
(* include/rs/result20.hpp: unwrap_or, as_const, as_mut                    *)

\* unwrap_or(T default_value):
\*     if (is_ok()) return std::move(get<0>());   (const: return get<0>();)
\*     return default_value;
Result_unwrap_or_value ==
    /\ pc = "run"
    /\ \E default_value \in Val, moving \in BOOLEAN :
        IF Result_is_ok(x_data)
        THEN /\ ResultCall("unwrap_or(T)", moving, [default_value |-> default_value],
                           RetT(x_data.value), <<>>)
             /\ ResultReturns(ResultAfterMove(x_data, moving))
        ELSE /\ ResultCall("unwrap_or(T)", moving, [default_value |-> default_value],
                           RetT(default_value), <<>>)
             /\ ResultReturns({x_data})
    /\ ResultOpFrame

\* unwrap_or(F&& op):
\*     if (is_ok()) return std::move(get<0>());
\*     return std::invoke(std::forward<F>(op), std::move(get<1>()));
Result_unwrap_or_invoke ==
    /\ pc = "run"
    /\ \E op \in Fns, moving \in BOOLEAN :
        /\ IF Result_is_ok(x_data)
           THEN ResultCall("unwrap_or(F)", moving, [op |-> op], RetT(x_data.value), <<>>)
           ELSE ResultCall("unwrap_or(F)", moving, [op |-> op],
                           RetT(Invoke(op, x_data.value)),
                           <<Called("op", x_data.value)>>)
        /\ ResultReturns(ResultAfterMove(x_data, moving))
    /\ ResultOpFrame

\* unwrap_or_default():
\*     if (is_ok()) return std::move(get<0>());
\*     return T();
Result_unwrap_or_default ==
    /\ pc = "run"
    /\ \E moving \in BOOLEAN :
        IF Result_is_ok(x_data)
        THEN /\ ResultCall("unwrap_or()", moving, NoArg, RetT(x_data.value), <<>>)
             /\ ResultReturns(ResultAfterMove(x_data, moving))
        ELSE /\ ResultCall("unwrap_or()", moving, NoArg, RetT(DefaultT), <<>>)
             /\ ResultReturns({x_data})
    /\ ResultOpFrame


\* What as_const() and as_mut() of a Result return: *this
RetSelfResult == [kind |-> "Result&"]

\* as_const() const: return *this;
Result_as_const ==
    /\ pc = "run"
    /\ ResultCall("as_const", FALSE, NoArg, RetSelfResult, <<>>)
    /\ ResultReturns({x_data})
    /\ ResultOpFrame

\* as_mut() const: return const_cast<Result<T, E>&>(*this);
Result_as_mut ==
    /\ pc = "run"
    /\ ResultCall("as_mut", FALSE, NoArg, RetSelfResult, <<>>)
    /\ ResultReturns({x_data})
    /\ ResultOpFrame

----------------------------------------------------------------------------

\* The state after the objects are constructed: Option<T>(), Option<void>(),
\* Result<T, E>() and Result<void, E>().
Containers ==
    /\ cxx23 \in BOOLEAN
    /\ enable_traceback = FALSE
    /\ pc = "run"
    /\ panic_message = ""
    /\ panic_location = NoLocation
    /\ output = <<>>
    /\ m_data = nullopt
    /\ v_data = nullopt
    /\ last = [op |-> "Option()", cls |-> "Option<T>", moving |-> FALSE, pre |-> nullopt,
               arg |-> NoArg, ret |-> RetVoid, calls |-> <<>>]
    /\ x_data = variant_default
    /\ x_built = "Result()"
    /\ w_data = void_variant_default
    /\ w_built = "Result()"
    /\ r_last = [op |-> "Result()", obj |-> "x", ret |-> RetVoid]

\* The programs of the containers format no span.
Constructed == Containers /\ fmt = no_formatter

\* The Option program: x is a Result<T, E> with T and E different types.
Init == Constructed /\ same_TE = FALSE /\ formattable = [I \in {0, 1} |-> TRUE]

\* The Result program: T and E are different types, or the same type.
ResultInit ==
    /\ Constructed
    /\ same_TE \in BOOLEAN
    /\ formattable = [I \in {0, 1} |-> TRUE]

Next ==
    \/ call_panic_write
    \/ call_panic_traceback
    \/ call_panic_abort
    \/ SetTraceback
    \/ AppPanic
    \/ is_some
    \/ is_none
    \/ is_some_and
    \/ is_none_or
    \/ expect
    \/ unwrap
    \/ unwrap_or_value
    \/ unwrap_or_invoke
    \/ unwrap_or_default
    \/ get
    \/ unwrap_unchecked
    \/ map
    \/ inspect
    \/ map_default
    \/ map_fallback
    \/ ok_or
    \/ ok_or_else
    \/ and_then_other
    \/ and_then
    \/ filter
    \/ filter_returned
    \/ or_else_other
    \/ or_else
    \/ xor_else
    \/ insert
    \/ get_or_insert_value
    \/ get_or_insert_default
    \/ get_or_insert_invoke
    \/ take
    \/ take_if
    \/ replace
    \/ zip
    \/ unzip
    \/ clone
    \/ as_const
    \/ as_mut
    \/ as_ref
    \/ as_cref
    \/ assign_nullopt
    \/ assign_option
    \/ assign_value
    \/ void_is_some
    \/ void_is_none
    \/ void_expect
    \/ void_unwrap
    \/ void_unwrap_or_default
    \/ void_unwrap_or_invoke
    \/ void_get
    \/ void_map
    \/ void_inspect
    \/ void_map_default
    \/ void_map_fallback
    \/ void_ok_or
    \/ void_ok_or_else
    \/ void_and_then_other
    \/ void_and_then
    \/ void_filter
    \/ void_or_else_other
    \/ void_or_else
    \/ void_xor_else
    \/ void_insert
    \/ void_get_or_insert
    \/ void_get_or_insert_invoke
    \/ void_take
    \/ void_take_if
    \/ void_replace
    \/ void_clone
    \/ void_as_ref
    \/ void_assign

Spec == Init /\ [][Next]_vars

\* The calls on the Result objects.
ResultNext ==
    \/ Result_ctor_default
    \/ Result_ctor_value
    \/ Result_ctor_in_place_type
    \/ Result_ctor_in_place_index
    \/ Result_Ok
    \/ Result_Err
    \/ void_Result_ctor_default
    \/ void_Result_ctor_err
    \/ void_Result_ctor_in_place_type
    \/ void_Result_ctor_in_place_index
    \/ Result_is_ok_call
    \/ Result_is_err_call
    \/ Result_compare

ResultSpec == ResultInit /\ [][ResultNext]_vars

\* The operations on built Result objects: T and E are different types, and
\* each of them may or may not have a std::formatter.
ResultOpInit ==
    /\ Constructed
    /\ same_TE = FALSE
    /\ formattable \in [{0, 1} -> BOOLEAN]

ResultOpNext ==
    \/ call_panic_write
    \/ call_panic_traceback
    \/ call_panic_abort
    \/ Result_Ok
    \/ Result_Err
    \/ void_Result_ctor_default
    \/ void_Result_ctor_err
    \/ Result_map
    \/ Result_map_err
    \/ Result_and_then_res
    \/ Result_and_then
    \/ Result_or_else_res
    \/ Result_or_else
    \/ Result_or_else_returned
    \/ Result_expect
    \/ Result_unwrap
    \/ Result_expect_err
    \/ Result_unwrap_err
    \/ void_Result_expect
    \/ void_Result_unwrap
    \/ void_Result_expect_err
    \/ void_Result_unwrap_err

ResultOpSpec == ResultOpInit /\ [][ResultOpNext]_vars

\* Views: the calls that build the containers, take a view of them with
\* as_ref(), assign through the view, and read the containers.
ViewNext ==
    \/ insert
    \/ take
    \/ as_ref
    \/ as_cref
    \/ as_ref_write
    \/ clone
    \/ Result_Ok
    \/ Result_Err
    \/ Result_as_ref
    \/ Result_as_ref_write
    \/ Result_clone

ViewSpec == Init /\ [][ViewNext]_vars


\* Access and conversion: the calls that build the Result objects, get an
\* alternative of them, and convert them with ok() and err().
AccessNext ==
    \/ call_panic_write
    \/ call_panic_traceback
    \/ call_panic_abort
    \/ Result_Ok
    \/ Result_Err
    \/ void_Result_ctor_default
    \/ void_Result_ctor_err
    \/ Result_get_type
    \/ Result_get_index
    \/ void_Result_get_type
    \/ void_Result_get_index
    \/ Result_ok
    \/ Result_err
    \/ Result_to_option_unwrap

AccessSpec == ResultInit /\ [][AccessNext]_vars


\* The calls through result_helper<E>, and the fatal report they can enter.
HelperNext ==
    \/ call_panic_write
    \/ call_panic_traceback
    \/ call_panic_abort
    \/ result_helper_invoke
    \/ result_helper_invoke_else_panic
    \/ result_helper_unwrap_or_default

HelperSpec == Init /\ [][HelperNext]_vars


\* Formatting a span: a formatter is constructed for a format spec, parses
\* it, and formats a span.
FormatInit ==
    /\ Containers
    /\ same_TE = FALSE
    /\ formattable = [I \in {0, 1} |-> TRUE]
    /\ \E spec \in FormatSpecs, capacity \in 0..MaxCapacity :
        fmt = [phase |-> "constructed", spec |-> spec,
               members |-> formatter_members(capacity),
               parse_end |-> 0, value |-> <<>>, out |-> <<>>]

FormatNext ==
    \/ formatter_parse
    \/ formatter_format

FormatSpec == FormatInit /\ [][FormatNext]_vars


\* The calls that build a Result<void, E> and chain a computation on it.
VoidChainNext ==
    \/ void_Result_ctor_default
    \/ void_Result_ctor_err
    \/ void_Result_and_then_res
    \/ void_Result_and_then

VoidChainSpec == Init /\ [][VoidChainNext]_vars


\* Consuming calls.  A program works on the Option or on the Result: the
\* calls on one of them are made while the other is as constructed.
ResultUnused == r_last.op = "Result()"
OptionUnused == last.op = "Option()"

OptionConsumeNext ==
    \/ insert
    \/ take
    \/ unwrap
    \/ expect
    \/ unwrap_or_value
    \/ unwrap_or_invoke
    \/ unwrap_or_default
    \/ map
    \/ filter
    \/ or_else_other
    \/ or_else
    \/ xor_else
    \/ zip
    \/ ok_or

ResultConsumeNext ==
    \/ Result_Ok
    \/ Result_Err
    \/ Result_map
    \/ Result_map_err
    \/ Result_and_then_res
    \/ Result_and_then
    \/ Result_or_else_res
    \/ Result_or_else
    \/ Result_unwrap
    \/ Result_unwrap_err
    \/ Result_unwrap_or_value
    \/ Result_unwrap_or_invoke
    \/ Result_unwrap_or_default
    \/ Result_ok
    \/ Result_err

ConsumeNext ==
    \/ call_panic_write
    \/ call_panic_traceback
    \/ call_panic_abort
    \/ ResultUnused /\ OptionConsumeNext
    \/ OptionUnused /\ ResultConsumeNext

ConsumeSpec == Init /\ [][ConsumeNext]_vars


\* Constness: the calls of ConsumeSpec, together with as_const() and
\* as_mut() and the other calls that have a const overload.
ConstNext ==
    \/ call_panic_write
    \/ call_panic_traceback
    \/ call_panic_abort
    \/ ResultUnused /\ OptionConsumeNext
    \/ ResultUnused /\ (as_const \/ as_mut \/ and_then_other \/ and_then)
    \/ OptionUnused /\ ResultConsumeNext
    \/ OptionUnused /\ (Result_as_const \/ Result_as_mut \/ Result_expect)

ConstSpec == Init /\ [][ConstNext]_vars

\* The paths into the fatal report.  call_panic_ is straight-line code: once
\* entered, each of its steps is taken.
PanicNext ==
    \/ call_panic_write
    \/ call_panic_traceback
    \/ call_panic_abort
    \/ SetTraceback
    \/ AppPanic
    \/ expect
    \/ unwrap
    \/ get
    \/ void_expect
    \/ void_unwrap
    \/ insert
    \/ take

PanicSpec ==
    /\ Init
    /\ [][PanicNext]_vars
    /\ WF_vars(call_panic_write)
    /\ WF_vars(call_panic_traceback)
    /\ WF_vars(call_panic_abort)

----------------------------------------------------------------------------
(* Properties                                                              *)

OnOptionT(op) == last.cls = "Option<T>" /\ last.op = op
OnOptionVoid(op) == last.cls = "Option<void>" /\ last.op = op
Filled == last.pre # <<>>
Empty == last.pre = <<>>

\* C1: in every reachable state exactly one of is_some() and is_none() is
\* true, for the Option<T> object and for the Option<void> object, and every
\* is_some() / is_none() call returned accordingly.
C1_SomeXorNone ==
    /\ Option_is_some(m_data) # Option_is_none(m_data)
    /\ Option_void_is_some(v_data) # Option_void_is_none(v_data)
    /\ OnOptionT("is_some") => last.ret.val = ~Option_is_none(m_data)
    /\ OnOptionT("is_none") => last.ret.val = ~Option_is_some(m_data)
    /\ OnOptionVoid("is_some") => last.ret.val = ~Option_void_is_none(v_data)
    /\ OnOptionVoid("is_none") => last.ret.val = ~Option_void_is_some(v_data)

\* C1 witness: take() has emptied a filled Option<T>, and the Option<void>
\* is filled.
C1_Witness ==
    /\ OnOptionT("take()")
    /\ Filled
    /\ Option_is_none(m_data) /\ ~Option_is_some(m_data)
    /\ Option_void_is_some(v_data) /\ ~Option_void_is_none(v_data)

OkBuilders == {"Result()", "Result(T)", "Result(in_place_type<T>)",
               "Result(in_place_type<void>)", "Result(in_place_index<0>)", "Ok"}

ErrBuilders == {"Result(E)", "Result(in_place_type<E>)", "Result(in_place_index<1>)",
                "Err"}

\* C2: exactly one of is_ok() and is_err() is true of a Result, and it is the
\* one its construction names; this holds too when T and E are the same type,
\* and a Result built by Ok(v) never compares equal to Err(v).
C2_StateMatchesConstruction ==
    /\ Result_is_ok(x_data) # Result_is_err(x_data)
    /\ Result_is_ok(w_data) # Result_is_err(w_data)
    /\ x_built \in OkBuilders \cup ErrBuilders
    /\ w_built \in OkBuilders \cup ErrBuilders
    /\ x_built \in OkBuilders => Result_is_ok(x_data) /\ ~Result_is_err(x_data)
    /\ x_built \in ErrBuilders => Result_is_err(x_data) /\ ~Result_is_ok(x_data)
    /\ w_built \in OkBuilders => Result_is_ok(w_data) /\ ~Result_is_err(w_data)
    /\ w_built \in ErrBuilders => Result_is_err(w_data) /\ ~Result_is_ok(w_data)
    /\ (r_last.op = "is_ok" /\ r_last.obj = "x") => (r_last.ret.val <=> x_built \in OkBuilders)
    /\ (r_last.op = "is_err" /\ r_last.obj = "x") => (r_last.ret.val <=> x_built \in ErrBuilders)
    /\ (r_last.op = "is_ok" /\ r_last.obj = "w") => (r_last.ret.val <=> w_built \in OkBuilders)
    /\ (r_last.op = "is_err" /\ r_last.obj = "w") => (r_last.ret.val <=> w_built \in ErrBuilders)
    /\ (r_last.op = "operator==" /\ x_built = "Ok" /\ r_last.rhs_built = "Err")
         => r_last.ret.val = FALSE
    /\ (r_last.op = "operator==" /\ x_built = "Err" /\ r_last.rhs_built = "Ok")
         => r_last.ret.val = FALSE

\* C2 witness: with T and E the same type, x built by Ok(v) was compared with
\* Err(v) of the same v and found different.
C2_Witness ==
    /\ same_TE
    /\ x_built = "Ok"
    /\ Result_is_ok(x_data)
    /\ r_last.op = "operator=="
    /\ r_last.rhs_built = "Err"
    /\ r_last.rhs.value = x_data.value
    /\ r_last.ret.val = FALSE

\* C3: unwrap() and expect(msg) on a filled Option<T> holding v return v on
\* both receivers and the fatal report is not entered; on an empty Option<T>
\* they do not return, and the fatal report is entered with "None" for
\* unwrap() and msg, ": ", "None" for expect(msg).
C3_UnwrapExpect ==
    /\ (OnOptionT("unwrap") /\ Filled) =>
          last.ret = [kind |-> "T", val |-> last.pre[1]] /\ pc = "run"
    /\ (OnOptionT("expect") /\ Filled) =>
          last.ret = [kind |-> "T", val |-> last.pre[1]] /\ pc = "run"
    /\ (OnOptionT("unwrap") /\ Empty) =>
          last.ret.kind = "noreturn" /\ pc # "run" /\ panic_message = "None"
    /\ (OnOptionT("expect") /\ Empty) =>
          /\ last.ret.kind = "noreturn"
          /\ pc # "run"
          /\ panic_message = last.arg.msg \o ": " \o "None"

\* C3 witness: expect("boom") on the empty non-const Option<T> ended in the
\* fatal report of "boom: None".
C3_Witness ==
    /\ OnOptionT("expect")
    /\ Empty
    /\ last.moving
    /\ last.arg.msg = "boom"
    /\ panic_message = "boom: None"
    /\ pc = "aborted"

TraceWritten == \E i \in 1..Len(output) : output[i].text = StackTrace

ExpectedDiagnostic ==
    IF panic_location.function_name # <<>>
    THEN <<"panicked at ", panic_location.file_name, " in function ",
           panic_location.function_name[1], ":", FormatNat(panic_location.line), ":",
           FormatNat(panic_location.column), ":\n", panic_message, "\n">>
    ELSE <<"panicked at ", panic_location.file_name, ":",
           FormatNat(panic_location.line), ":", FormatNat(panic_location.column),
           ":\n", panic_message, "\n">>

ExpectedOutput ==
    IF cxx23 /\ enable_traceback
    THEN <<[stream |-> "stderr", text |-> ExpectedDiagnostic],
           [stream |-> "stdout", text |-> StackTrace]>>
    ELSE <<[stream |-> "stderr", text |-> ExpectedDiagnostic]>>

OutputAsStated ==
    IF enable_traceback
    THEN <<[stream |-> "stderr", text |-> ExpectedDiagnostic],
           [stream |-> "stdout", text |-> StackTrace]>>
    ELSE <<[stream |-> "stderr", text |-> ExpectedDiagnostic]>>

\* C4 as stated: every invocation of the fatal report ends in abort and never
\* returns; the diagnostic is written first; a stack trace follows it if and
\* only if enable_traceback is set; the reporting path never writes the flag.
C4_TraceIffFlag ==
    /\ [](pc # "run" => <>(pc = "aborted"))
    /\ [][pc # "run" => (pc' # "run" /\ enable_traceback' = enable_traceback)]_vars
    /\ [][pc = "aborted" => pc' = "aborted"]_vars
    /\ [](pc = "call_panic_" => output = <<>>)
    /\ [](pc = "traceback" =>
            output = <<[stream |-> "stderr", text |-> ExpectedDiagnostic]>>)
    /\ [](pc \in {"abort", "aborted"} => output = OutputAsStated)

\* C4 (amended): every invocation of the fatal report ends in abort and never
\* returns to the caller; the diagnostic (file, function name when available,
\* line, column, message) is written to stderr first; a stack trace follows it
\* (on stdout) if and only if enable_traceback is set and the build defines
\* MY_CXX23; the reporting path never writes the flag.
C4_FatalReport ==
    /\ [](pc # "run" => <>(pc = "aborted"))
    /\ [][pc # "run" => (pc' # "run" /\ enable_traceback' = enable_traceback)]_vars
    /\ [][pc = "aborted" => pc' = "aborted"]_vars
    /\ [](pc = "call_panic_" => output = <<>>)
    /\ [](pc = "traceback" =>
            output = <<[stream |-> "stderr", text |-> ExpectedDiagnostic]>>)
    /\ [](pc \in {"abort", "aborted"} => output = ExpectedOutput)

\* C4 witness: a C++23 build with the flag set has aborted after writing the
\* diagnostic and the stack trace.
C4_Witness ==
    /\ pc = "aborted"
    /\ cxx23
    /\ enable_traceback
    /\ Len(output) = 2
    /\ output[1].stream = "stderr"
    /\ TraceWritten

\* C5 as stated: map(default_value, f) returns f(contained value) on a filled
\* Option and default_value on an empty one; map(fallback, f) returns
\* f(contained value) on a filled Option without invoking fallback, and
\* fallback() on an empty one without invoking f; for both receivers of
\* Option<T> and for Option<void>, where f takes no argument.
C5_MapFold ==
    /\ OnOptionT("map(U, F)") =>
          last.ret = RetT(IF Filled THEN last.arg.f[last.pre[1]]
                                    ELSE last.arg.default_value)
    /\ OnOptionVoid("map(U, F)") =>
          last.ret = RetT(IF Filled THEN last.arg.f[<<>>]
                                    ELSE last.arg.default_value)
    /\ OnOptionT("map(D, F)") =>
          IF Filled
          THEN /\ last.ret = RetT(last.arg.f[last.pre[1]])
               /\ last.calls = <<Called("f", last.pre[1])>>
          ELSE /\ last.ret = RetT(last.arg.fallback[<<>>])
               /\ last.calls = <<Called0("fallback")>>
    /\ OnOptionVoid("map(D, F)") =>
          IF Filled
          THEN /\ last.ret = RetT(last.arg.f[<<>>])
               /\ last.calls = <<Called0("f")>>
          ELSE /\ last.ret = RetT(last.arg.fallback[<<>>])
               /\ last.calls = <<Called0("fallback")>>

\* C5 failing state: map(0, f) on the non-const Option<T> holding 1, with
\* f(1) = 2, invoked f on 1 and returned 0.
C5_Witness ==
    /\ OnOptionT("map(U, F)")
    /\ last.moving
    /\ last.pre = <<1>>
    /\ last.arg.default_value = 0
    /\ last.arg.f[1] = 2
    /\ last.calls = <<Called("f", 1)>>
    /\ last.ret = RetT(0)

\* C6 as stated: and_then(f) on a filled Option holding v invokes f exactly
\* once, on v, and returns the Option f produced; and_then(other) on a filled
\* Option returns other; for Option<T> and for Option<void>.
C6_AndThen ==
    /\ (OnOptionT("and_then(F)") /\ Filled) =>
          /\ last.calls = <<Called("f", last.pre[1])>>
          /\ last.ret = RetOption(last.arg.f[last.pre[1]])
    /\ (OnOptionVoid("and_then(F)") /\ Filled) =>
          /\ last.calls = <<Called0("f")>>
          /\ last.ret = RetOption(last.arg.f[<<>>])
    /\ ((OnOptionT("and_then(Option)") \/ OnOptionVoid("and_then(Option)")) /\ Filled) =>
          last.ret = RetOption(last.arg.other)

\* C6 failing state: and_then(f) on the non-const Option<T> holding 1, with
\* f(1) a filled Option holding 1, invoked f on 1 and returned an empty Option.
C6_Witness ==
    /\ OnOptionT("and_then(F)")
    /\ last.moving
    /\ last.pre = <<1>>
    /\ last.arg.f[1] = <<1>>
    /\ last.calls = <<Called("f", 1)>>
    /\ last.ret = RetOption(nullopt)

\* C7: and_then(f) and and_then(other) on an empty Option return an empty
\* Option and invoke nothing, whatever f is and on both receivers; the
\* receiver stays empty and the fatal report is not entered.
C7_AndThenEmpty ==
    /\ ((OnOptionT("and_then(F)") \/ OnOptionVoid("and_then(F)")) /\ Empty) =>
          /\ last.ret = RetOption(nullopt)
          /\ last.calls = <<>>
          /\ pc = "run"
    /\ ((OnOptionT("and_then(Option)") \/ OnOptionVoid("and_then(Option)")) /\ Empty) =>
          /\ last.ret = RetOption(nullopt)
          /\ last.calls = <<>>
    /\ (OnOptionT("and_then(F)") /\ Empty) => m_data = nullopt

\* C7 witness: and_then(f) was called on the empty non-const Option<T> with
\* an f that returns a filled Option for every argument.
C7_Witness ==
    /\ OnOptionT("and_then(F)")
    /\ Empty
    /\ last.moving
    /\ \A v \in Val : has_value(last.arg.f[v])
    /\ last.ret = RetOption(nullopt)

\* C8: map(f) on a filled Option holding v invokes f exactly once, on v, and
\* returns a filled Option holding f(v); on an empty Option it returns an
\* empty Option and does not invoke f; for both receivers of Option<T> and,
\* with f taking no argument, for Option<void>.
C8_Map ==
    /\ (OnOptionT("map(F)") /\ Filled) =>
          /\ last.ret = RetOption(<<last.arg.f[last.pre[1]]>>)
          /\ last.calls = <<Called("f", last.pre[1])>>
    /\ (OnOptionVoid("map(F)") /\ Filled) =>
          /\ last.ret = RetOption(<<last.arg.f[<<>>]>>)
          /\ last.calls = <<Called0("f")>>
    /\ ((OnOptionT("map(F)") \/ OnOptionVoid("map(F)")) /\ Empty) =>
          /\ last.ret = RetOption(nullopt)
          /\ last.calls = <<>>

\* C8 witness: map(f) on the non-const Option<T> holding 1 returned a filled
\* Option holding f(1) = 2, a value other than the one it held.
C8_Witness ==
    /\ OnOptionT("map(F)")
    /\ last.moving
    /\ last.pre = <<1>>
    /\ last.arg.f[1] = 2
    /\ last.ret = RetOption(<<2>>)

UnwrapOrOps == {"unwrap_or(T)", "unwrap_or(F)", "unwrap_or()"}

\* C9: unwrap_or(default_value), unwrap_or(f) and unwrap_or() on a filled
\* Option<T> return the contained value and invoke nothing; on an empty one
\* they return default_value, the value of the single call f(), and T()
\* respectively; on Option<void> unwrap_or(f) invokes f once exactly when the
\* Option is empty; none of them enters the fatal report.
C9_UnwrapOr ==
    /\ last.op \in UnwrapOrOps =>
          /\ pc = "run"
          /\ last.ret.kind # "noreturn"
    /\ (last.op \in UnwrapOrOps /\ last.cls = "Option<T>" /\ Filled) =>
          /\ last.ret = RetT(last.pre[1])
          /\ last.calls = <<>>
    /\ (OnOptionT("unwrap_or(T)") /\ Empty) =>
          /\ last.ret = RetT(last.arg.default_value)
          /\ last.calls = <<>>
    /\ (OnOptionT("unwrap_or(F)") /\ Empty) =>
          /\ last.ret = RetT(last.arg.f[<<>>])
          /\ last.calls = <<Called0("f")>>
    /\ (OnOptionT("unwrap_or()") /\ Empty) =>
          /\ last.ret = RetT(DefaultT)
          /\ last.calls = <<>>
    /\ OnOptionVoid("unwrap_or(F)") =>
          last.calls = IF Filled THEN <<>> ELSE <<Called0("f")>>
    /\ OnOptionVoid("unwrap_or()") => last.calls = <<>>

\* C9 witness: unwrap_or(f) on the non-const Option<T> holding 2 returned 2,
\* with an f that would have produced 1.
C9_Witness ==
    /\ OnOptionT("unwrap_or(F)")
    /\ last.moving
    /\ last.pre = <<2>>
    /\ last.arg.f[<<>>] = 1
    /\ last.ret = RetT(2)
    /\ pc = "run"

\* C10: or_else(other) and or_else(f) on a filled Option holding v return a
\* filled Option holding v and invoke nothing; on an empty Option they return
\* other, respectively the Option returned by the single call f(); for both
\* receivers of Option<T> and for Option<void>.
C10_OrElse ==
    /\ ((OnOptionT("or_else(Option)") \/ OnOptionT("or_else(F)")) /\ Filled) =>
          /\ last.ret = RetOption(<<last.pre[1]>>)
          /\ last.calls = <<>>
    /\ ((OnOptionVoid("or_else(Option)") \/ OnOptionVoid("or_else(F)")) /\ Filled) =>
          /\ last.ret = RetOption(<<monostate>>)
          /\ last.calls = <<>>
    /\ (last.op = "or_else(Option)" /\ Empty) =>
          /\ last.ret = RetOption(last.arg.other)
          /\ last.calls = <<>>
    /\ (last.op = "or_else(F)" /\ Empty) =>
          /\ last.ret = RetOption(last.arg.f[<<>>])
          /\ last.calls = <<Called0("f")>>

\* C10 witness: or_else(f) on the non-const Option<T> holding 1 returned an
\* Option holding 1, with an f that would have produced an Option holding 2.
C10_Witness ==
    /\ OnOptionT("or_else(F)")
    /\ last.moving
    /\ last.pre = <<1>>
    /\ last.arg.f[<<>>] = <<2>>
    /\ last.ret = RetOption(<<1>>)

\* C11: xor_else(other) returns a filled Option holding the receiver's value
\* when only the receiver is filled, a filled Option holding other's value
\* when only other is filled, and an empty Option when both or neither are
\* filled; for both receivers of Option<T> and for Option<void>.
C11_XorElse ==
    last.op = "xor_else" =>
        /\ (Filled /\ last.arg.other = <<>>) => last.ret = RetOption(<<last.pre[1]>>)
        /\ (Empty /\ last.arg.other # <<>>) => last.ret = RetOption(<<last.arg.other[1]>>)
        /\ (Filled /\ last.arg.other # <<>>) => last.ret = RetOption(nullopt)
        /\ (Empty /\ last.arg.other = <<>>) => last.ret = RetOption(nullopt)
        /\ last.calls = <<>>
        /\ pc = "run"

\* C11 witness: xor_else on the non-const Option<T> holding 1 with an other
\* holding 2 returned an empty Option.
C11_Witness ==
    /\ OnOptionT("xor_else")
    /\ last.moving
    /\ last.pre = <<1>>
    /\ last.arg.other = <<2>>
    /\ last.ret = RetOption(nullopt)

\* C12: filter(p) returns a filled Option holding the receiver's value when
\* the receiver is filled and p holds on that value, and an empty Option
\* otherwise, invoking p once on a filled receiver and never on an empty one;
\* and filter(p) applied to the Option that filter(p) returned gives that
\* same Option again.
C12_FilterIdempotent ==
    /\ OnOptionT("filter") =>
          IF Empty
          THEN last.ret = RetOption(nullopt) /\ last.calls = <<>>
          ELSE /\ last.calls = <<Called("predicate", last.pre[1])>>
               /\ last.ret = RetOption(IF last.arg.predicate[last.pre[1]]
                                       THEN <<last.pre[1]>> ELSE nullopt)
    /\ OnOptionVoid("filter") =>
          IF Empty
          THEN last.ret = RetOption(nullopt) /\ last.calls = <<>>
          ELSE /\ last.calls = <<Called0("predicate")>>
               /\ last.ret = RetOption(IF last.arg.predicate[<<>>]
                                       THEN <<monostate>> ELSE nullopt)
    /\ OnOptionT("filter.filter") =>
          /\ last.ret = RetOption(last.pre)
          /\ Empty => last.calls = <<>>

\* C12 witness: filter(p) was applied a second time to a filled Option that
\* filter(p) had returned, with a p that does not hold on every value, and it
\* returned the Option holding the same value.
C12_Witness ==
    /\ OnOptionT("filter.filter")
    /\ last.pre = <<2>>
    /\ \E v \in Val : ~last.arg.predicate[v]
    /\ last.calls = <<Called("predicate", 2)>>
    /\ last.ret = RetOption(<<2>>)

\* C13: after t = m.take() the receiver is empty whatever it held; t is
\* filled with v when the receiver held v, and empty when it was empty; for
\* Option<T> and, with presence in place of the value, for Option<void>.
C13_Take ==
    /\ OnOptionT("take()") =>
          /\ m_data = nullopt
          /\ Option_is_none(m_data)
          /\ last.ret = RetOption(last.pre)
    /\ OnOptionVoid("take()") =>
          /\ v_data = nullopt
          /\ Option_void_is_none(v_data)
          /\ last.ret = RetOption(last.pre)

\* C13 witness: take() on the Option<T> holding 2 returned an Option holding
\* 2 and left the receiver empty.
C13_Witness ==
    /\ OnOptionT("take()")
    /\ last.pre = <<2>>
    /\ last.ret = RetOption(<<2>>)
    /\ m_data = nullopt

\* C14: after r = m.replace(value) the receiver is filled with value
\* whatever it held, and r is what the receiver held before the call; for
\* Option<T> and, with presence in place of the value, for Option<void>.
C14_Replace ==
    /\ OnOptionT("replace") =>
          /\ m_data = <<last.arg.value>>
          /\ last.ret = RetOption(last.pre)
    /\ OnOptionVoid("replace") =>
          /\ v_data = <<monostate>>
          /\ last.ret = RetOption(last.pre)

\* C14 witness: replace(2) on the Option<T> holding 1 returned an Option
\* holding 1 and left the receiver holding 2.
C14_Witness ==
    /\ OnOptionT("replace")
    /\ last.pre = <<1>>
    /\ last.arg.value = 2
    /\ last.ret = RetOption(<<1>>)
    /\ m_data = <<2>>

\* C15: ok_or(err) and ok_or_else(err) on a filled Option return a Result
\* in the success state holding the contained value, and err is not invoked;
\* on an empty Option they return a Result in the failure state holding err,
\* respectively the value of the single call err(); for both receivers of
\* Option<T> and for Option<void>, whose success holds no value.
C15_OkOr ==
    /\ (last.op \in {"ok_or", "ok_or_else"} /\ Filled) =>
          /\ Result_is_ok(last.ret)
          /\ last.ret.value = last.pre[1]
          /\ last.calls = <<>>
    /\ (last.op = "ok_or" /\ Empty) =>
          /\ Result_is_err(last.ret)
          /\ last.ret.value = last.arg.err
          /\ last.calls = <<>>
    /\ (last.op = "ok_or_else" /\ Empty) =>
          /\ Result_is_err(last.ret)
          /\ last.ret.value = last.arg.err[<<>>]
          /\ last.calls = <<Called0("err")>>

\* C15 witness: ok_or_else(err) on the empty non-const Option<T>, with err()
\* = 2, returned a Result in the failure state holding 2.
C15_Witness ==
    /\ OnOptionT("ok_or_else")
    /\ last.moving
    /\ Empty
    /\ last.arg.err[<<>>] = 2
    /\ last.ret = RetResult(1, 2)

\* C16: as_ref() on a filled Option gives an Option holding a reference to
\* the payload, not a copy of it, and leaves the Option as it was; on an empty
\* Option it gives an empty Option; as_ref() on a Result gives a Result in the
\* same state holding a reference to the active payload and leaves the Result
\* as it was; a value assigned through the reference is the payload of the
\* container afterwards, and is what the next clone() of the container holds.
C16_AsRefAliases ==
    /\ [](OnOptionT("as_ref") =>
            /\ m_data = last.pre
            /\ Empty => last.ret = RetOption(nullopt)
            /\ Filled => last.ret = RetOption(<<RefToPayload(~last.moving)>>))
    /\ [](OnOptionT("as_ref.write") => m_data = <<last.arg.value>>)
    /\ [][(last.op = "as_ref.write" /\ last'.op = "clone") =>
            last'.ret = RetOption(<<last.arg.value>>)]_vars
    /\ [](r_last.op = "as_ref" =>
            /\ x_data = r_last.pre
            /\ Result_is_ok(r_last.ret) = Result_is_ok(x_data)
            /\ r_last.ret.value = RefToAlternative(x_data.index, ~r_last.moving))
    /\ [](r_last.op = "as_ref.write" =>
            x_data = [index |-> r_last.pre.index, value |-> r_last.arg.value])
    /\ [][(r_last.op = "as_ref.write" /\ r_last'.op = "clone") =>
            r_last'.ret = RetResult(r_last.pre.index, r_last.arg.value)]_vars

\* C16 witness: 2 was assigned through as_ref() of the Option<T> holding 1
\* and the Option<T> holds 2, and 1 was assigned through as_ref() of the
\* Result holding the failure 0 and the Result holds the failure 1.
C16_Witness ==
    /\ OnOptionT("as_ref.write")
    /\ last.pre = <<1>>
    /\ last.arg.value = 2
    /\ m_data = <<2>>
    /\ r_last.op = "as_ref.write"
    /\ r_last.pre = Err(0)
    /\ r_last.arg.value = 1
    /\ x_data = Err(1)

OnResult(op) == r_last.op = op /\ r_last.obj = "x"
OnResultVoid(op) == r_last.op = op /\ r_last.obj = "w"

\* C17: map(func) on a success holding v returns a success holding func(v),
\* func invoked once on v, and on a failure holding e returns a failure
\* holding e without invoking func; map_err(op) on a failure holding e
\* returns a failure holding op(e), op invoked once on e, and on a success
\* holding v returns a success holding v without invoking op; on both
\* receivers.
C17_ResultMap ==
    /\ (OnResult("map") /\ Result_is_ok(r_last.pre)) =>
          /\ r_last.ret = RetOfResult(Ok(r_last.arg.func[r_last.pre.value]))
          /\ r_last.calls = <<Called("func", r_last.pre.value)>>
    /\ (OnResult("map") /\ Result_is_err(r_last.pre)) =>
          /\ r_last.ret = RetOfResult(Err(r_last.pre.value))
          /\ r_last.calls = <<>>
    /\ (OnResult("map_err") /\ Result_is_err(r_last.pre)) =>
          /\ r_last.ret = RetOfResult(Err(r_last.arg.op[r_last.pre.value]))
          /\ r_last.calls = <<Called("op", r_last.pre.value)>>
    /\ (OnResult("map_err") /\ Result_is_ok(r_last.pre)) =>
          /\ r_last.ret = RetOfResult(Ok(r_last.pre.value))
          /\ r_last.calls = <<>>

\* C17 witness: map(func) on the non-const success holding 1, with func(1) =
\* 2, returned a success holding 2.
C17_Witness ==
    /\ OnResult("map")
    /\ r_last.moving
    /\ r_last.pre = Ok(1)
    /\ r_last.arg.func[1] = 2
    /\ r_last.ret = RetResult(0, 2)

Rendered(I, prefix, v) == IF formattable[I] THEN prefix \o FormatNat(v) ELSE ""

\* C20: expect(msg) and unwrap() on a failure, and expect_err(msg) and
\* unwrap_err() on a success, do not return and enter the fatal report, which
\* is never left; the message reported is msg, ": " and the decimal rendering
\* of the stored payload when the payload's type has a formatter (the
\* rendering alone for unwrap and unwrap_err), and msg alone (nothing for
\* unwrap and unwrap_err) when it has none, as for the success of Result<void,
\* E>, which stores no payload.  On the matching state they return the payload
\* and the fatal report is not entered.
C20_ResultExpect ==
    /\ [][pc # "run" => pc' # "run"]_vars
    /\ [](((OnResult("expect") \/ OnResult("unwrap")) /\ Result_is_ok(r_last.pre)) =>
            r_last.ret = RetT(r_last.pre.value) /\ pc = "run")
    /\ [](((OnResult("expect_err") \/ OnResult("unwrap_err")
            \/ OnResultVoid("expect_err") \/ OnResultVoid("unwrap_err"))
                /\ Result_is_err(r_last.pre)) =>
            r_last.ret = RetT(r_last.pre.value) /\ pc = "run")
    /\ [](((OnResultVoid("expect") \/ OnResultVoid("unwrap")) /\ Result_is_ok(r_last.pre)) =>
            r_last.ret = RetVoid /\ pc = "run")
    /\ []((r_last.op \in {"expect", "unwrap"} /\ r_last.obj \in {"x", "w"}
                /\ Result_is_err(r_last.pre)) =>
            /\ r_last.ret = NoReturn
            /\ pc # "run"
            /\ r_last.op = "expect" =>
                  panic_message = r_last.arg.msg \o Rendered(1, ": ", r_last.pre.value)
            /\ r_last.op = "unwrap" =>
                  panic_message = Rendered(1, "", r_last.pre.value))
    /\ []((r_last.op \in {"expect_err", "unwrap_err"} /\ r_last.obj = "x"
                /\ Result_is_ok(r_last.pre)) =>
            /\ r_last.ret = NoReturn
            /\ pc # "run"
            /\ r_last.op = "expect_err" =>
                  panic_message = r_last.arg.msg \o Rendered(0, ": ", r_last.pre.value)
            /\ r_last.op = "unwrap_err" =>
                  panic_message = Rendered(0, "", r_last.pre.value))
    /\ []((r_last.op \in {"expect_err", "unwrap_err"} /\ r_last.obj = "w"
                /\ Result_is_ok(r_last.pre)) =>
            /\ r_last.ret = NoReturn
            /\ pc # "run"
            /\ r_last.op = "expect_err" => panic_message = r_last.arg.msg
            /\ r_last.op = "unwrap_err" => panic_message = "")

\* C20 witness: expect("boom") on the failure holding 2, of a formattable E,
\* has aborted the process with the report "boom: 2".
C20_Witness ==
    /\ OnResult("expect")
    /\ r_last.pre = Err(2)
    /\ r_last.arg.msg = "boom"
    /\ formattable[1]
    /\ panic_message = "boom: 2"
    /\ pc = "aborted"


GetOps == {"get<U>", "get<I>"}

OnHelper(op) == r_last.op = op /\ r_last.obj = "result_helper"

\* C23: result_helper<E>::invoke(f, args...) returns a success holding the
\* value f returned, and a failure holding the error when f raised an E; an
\* error of another type leaves invoke towards its caller, and in
\* invoke_else_panic it enters the fatal report instead, which does not
\* return.
C23_ResultHelper ==
    \A op \in {"invoke", "invoke_else_panic"} :
        OnHelper(op) =>
            LET outcome == r_last.pre
            IN  /\ r_last.calls = <<Called("f", r_last.arg.args[1])>>
                /\ outcome = Invoke(r_last.arg.f, r_last.arg.args[1])
                /\ outcome.kind = "return" =>
                        r_last.ret = RetResult(0, outcome.value) /\ pc = "run"
                /\ (outcome.kind = "throw" /\ outcome.type \in {"E", "derived from E"}) =>
                        r_last.ret = RetResult(1, outcome.value) /\ pc = "run"
                /\ (outcome.kind = "throw" /\ outcome.type = "other") =>
                        IF op = "invoke"
                        THEN r_last.ret = Propagates(outcome) /\ pc = "run"
                        ELSE /\ r_last.ret = NoReturn
                             /\ pc # "run"
                             /\ panic_message =
                                    invoke_else_panic_message

\* invoke_else_panic has met an error that is not an E, and the fatal report
\* has run to its end.
C23_Witness ==
    /\ OnHelper("invoke_else_panic")
    /\ r_last.pre.kind = "throw"
    /\ r_last.pre.type = "other"
    /\ pc = "aborted"
    /\ output # <<>>


\* The elements of a span in index order, each rendered by the element
\* formatter, with the separator between consecutive elements only.
RECURSIVE SeparatedElements(_, _, _)
SeparatedElements(value, separator, spec) ==
    IF value = <<>> THEN <<>>
    ELSE IF Len(value) = 1 THEN <<element_formatter_format(value[1], spec)>>
    ELSE <<element_formatter_format(value[1], spec)>> \o Characters(separator)
         \o SeparatedElements(Tail(value), separator, spec)

\* The prefix, suffix and separator a format spec configures: the text
\* written between the markers, or the default.
Configured == fmt.members.written

\* C24: formatting a span after parsing its format spec writes the
\* configured prefix (default "["), the elements in index order with the
\* configured separator (default ", ") between consecutive elements only,
\* and the configured suffix (default "]"); each of the three is the text
\* written between its markers, also when several are configured in one
\* spec; a spec without '|' gives the element formatter an empty spec.
C24_SpanFormat ==
    fmt.phase = "formatted" =>
        /\ fmt.out = Characters(Configured.border_begin)
                     \o SeparatedElements(fmt.value, Configured.separator,
                                          fmt.members.element_spec)
                     \o Characters(Configured.border_end)
        /\ (\A i \in 1..Len(fmt.spec) : fmt.spec[i] # "|") =>
                fmt.members.element_spec = <<>>

\* A spec has configured a prefix and a separator, the span of two elements
\* is formatted, and the prefix written is not the prefix configured.
C24_Witness ==
    /\ fmt.phase = "formatted"
    /\ Len(fmt.value) = 2
    /\ Configured.border_begin = <<"a">>
    /\ fmt.members.separator.area = "storage"
    /\ fmt.members.capacity = MaxCapacity
    /\ fmt.out[1] # [char |-> "a"]


\* C25: on a Result<void, E>, and_then(fn) with a zero-argument fn returns,
\* on a failure holding e, a failure holding e without invoking fn, and on a
\* success what the single invocation fn() returned, for the non-const
\* receiver as for the const one.
C25_VoidAndThen ==
    OnResultVoid("and_then(F)") =>
        IF Result_is_err(r_last.pre)
        THEN /\ r_last.ret = RetResult(1, r_last.pre.value)
             /\ r_last.calls = <<>>
        ELSE /\ r_last.ret = RetOfResult(Invoke0(r_last.arg.op))
             /\ r_last.calls = <<Called0("op")>>

\* and_then(fn) on the non-const failure holding e has returned a success.
C25_Witness ==
    /\ OnResultVoid("and_then(F)")
    /\ r_last.moving
    /\ r_last.pre = Err(MaxVal)
    /\ r_last.ret.kind = "Result"
    /\ r_last.ret.index = 0
    /\ r_last.calls = <<>>

\* The const receiver alone does what the claim says.
C25_ConstReceiver ==
    (OnResultVoid("and_then(F)") /\ ~r_last.moving) =>
        IF Result_is_err(r_last.pre)
        THEN /\ r_last.ret = RetResult(1, r_last.pre.value)
             /\ r_last.calls = <<>>
        ELSE /\ r_last.ret = RetOfResult(Invoke0(r_last.arg.op))
             /\ r_last.calls = <<Called0("op")>>


\* C26: get() on an empty Option enters the fatal report and does not
\* return, for Option<T> and for Option<void>; on a filled Option it returns
\* the contents (a reference to them; nothing for Option<void>) without a
\* report.
C26_GetFatal ==
    /\ OnOptionT("get") =>
        IF last.pre = nullopt
        THEN last.ret = NoReturn /\ pc # "run"
        ELSE last.ret = RetPayloadRef /\ m_data = last.pre /\ pc = "run"
    /\ OnOptionVoid("get") =>
        IF last.pre = nullopt
        THEN last.ret = NoReturn /\ pc # "run"
        ELSE last.ret = RetVoid /\ v_data = last.pre /\ pc = "run"

\* get() on an empty Option<void> has returned, and nothing was reported.
C26_Witness ==
    /\ OnOptionVoid("get")
    /\ last.pre = nullopt
    /\ last.ret = RetVoid
    /\ pc = "run"
    /\ output = <<>>

\* Option<T>::get() alone does what the claim says.
C26_GetOfOptionT ==
    OnOptionT("get") =>
        IF last.pre = nullopt
        THEN last.ret = NoReturn /\ pc # "run" /\ panic_message = "Option has no value"
        ELSE last.ret = RetPayloadRef /\ m_data = last.pre /\ pc = "run"


GetOrInsertOps == {"get_or_insert(T)", "get_or_insert()", "get_or_insert(F)"}

\* What get_or_insert stores in an empty Option<T>.
Inserted ==
    IF last.op = "get_or_insert(T)" THEN last.arg.value
    ELSE IF last.op = "get_or_insert()" THEN DefaultT
    ELSE Invoke0(last.arg.f)

\* The effect of get_or_insert on the Option: a filled one keeps its
\* contents and fn is not invoked, an empty one is filled with the value,
\* a default-constructed T, or the result of the one invocation fn().
C27_Effect ==
    /\ \A op \in GetOrInsertOps :
        OnOptionT(op) =>
            /\ Option_is_some(m_data)
            /\ IF Filled
               THEN m_data = last.pre /\ last.calls = <<>>
               ELSE /\ m_data = in_place(Inserted)
                    /\ last.calls = IF op = "get_or_insert(F)"
                                    THEN <<Called0("f")>> ELSE <<>>
    /\ \A op \in {"get_or_insert()", "get_or_insert(F)"} :
        OnOptionVoid(op) =>
            /\ Option_void_is_some(v_data)
            /\ Filled => last.calls = <<>>
            /\ (Empty /\ op = "get_or_insert(F)") => last.calls = <<Called0("f")>>

\* C27: get_or_insert(value), get_or_insert() and get_or_insert(fn) leave a
\* filled Option unchanged without invoking fn, fill an empty one with the
\* value, a default-constructed T or fn(), leave is_some() true, and return
\* a reference to the stored contents.
C27_GetOrInsert ==
    /\ C27_Effect
    /\ \A op \in GetOrInsertOps : OnOptionT(op) => last.ret = RetPayloadRef

\* get_or_insert() on an empty Option<T> has filled it with T(), and what it
\* returns is the Option, not its contents.
C27_Witness ==
    /\ OnOptionT("get_or_insert()")
    /\ Empty
    /\ m_data = in_place(DefaultT)
    /\ last.ret = RetSelf


\* The consuming operations of the claim, by the names the calls are
\* recorded under.
OptionConsumingOps ==
    {"unwrap", "expect", "unwrap_or(T)", "unwrap_or(F)", "unwrap_or()", "map(F)",
     "filter", "or_else(Option)", "or_else(F)", "xor_else", "zip", "ok_or"}
ResultConsumingOps ==
    {"map", "map_err", "and_then(Result)", "and_then(F)", "or_else(Result)",
     "or_else(F)", "unwrap", "unwrap_err", "unwrap_or(T)", "unwrap_or(F)",
     "unwrap_or()", "ok", "err"}

OptionConstOps ==
    {"as_const", "as_mut", "map(F)", "and_then(Option)", "and_then(F)",
     "or_else(Option)", "or_else(F)", "unwrap", "expect", "unwrap_or(T)",
     "unwrap_or(F)", "unwrap_or()", "filter", "xor_else", "zip", "ok_or"}
ResultConstOps ==
    {"as_const", "as_mut", "map", "map_err", "and_then(Result)", "and_then(F)",
     "or_else(Result)", "or_else(F)", "unwrap", "expect", "unwrap_or(T)",
     "unwrap_or(F)", "unwrap_or()"}

\* C29: as_const() and as_mut() change nothing in the container, and a call
\* of a const overload (map, map_err, and_then, or_else, unwrap, expect,
\* unwrap_or, filter, xor_else, zip, ok_or on the reference as_const()
\* gives) leaves the state and the payload of its source as they were
\* before the call, so that the same value is there to be read again.
C29_ConstLeavesSource ==
    /\ [][(last'.cls = "Option<T>" /\ last'.op \in OptionConstOps /\ ~last'.moving)
            => (m_data' = m_data /\ last'.pre = m_data)]_vars
    /\ [][(r_last'.obj = "x" /\ r_last'.op \in ResultConstOps /\ ~r_last'.moving)
            => (x_data' = x_data /\ r_last'.pre = x_data)]_vars
    /\ [](\A op \in {"as_const", "as_mut"} :
            /\ OnOptionT(op) => last.ret = RetSelf /\ last.calls = <<>>
            /\ OnResult(op) => r_last.ret = RetSelfResult /\ r_last.calls = <<>>)

\* unwrap() of the const overload has returned the payload of a success,
\* and the Result holds it as before.
C29_Witness ==
    /\ OnResult("unwrap")
    /\ ~r_last.moving
    /\ r_last.pre = Ok(MaxVal)
    /\ r_last.ret = RetT(MaxVal)
    /\ x_data = Ok(MaxVal)
    /\ pc = "run"


\* The Option calls that may end in the fatal report.
FatalOps == {"expect", "unwrap", "get"}

\* The other checked calls of the claim.
ReturningOps ==
    {"is_some", "is_none", "is_some_and", "is_none_or", "unwrap_or(T)",
     "unwrap_or(F)", "unwrap_or()", "map(F)", "map(U, F)", "map(D, F)", "inspect",
     "and_then(Option)", "and_then(F)", "or_else(Option)", "or_else(F)", "xor_else",
     "filter", "ok_or", "ok_or_else", "insert", "get_or_insert(T)",
     "get_or_insert()", "get_or_insert(F)", "take()", "take(P)", "replace", "zip",
     "unzip", "as_ref", "as_cref", "clone"}

OnOption == last.cls \in {"Option<T>", "Option<void>"}

\* C30: on an Option the fatal report is entered only by expect, unwrap and
\* get, and there on an empty Option: the step that leaves the running
\* program by a call on an Option is one of these three, and after any of the
\* other checked calls, in whatever state it was made, the program runs on.
C30_OnlyExtractionIsFatal ==
    /\ [][(pc = "run" /\ pc' # "run" /\ last'.cls \in {"Option<T>", "Option<void>"})
            => (last'.op \in FatalOps /\ last'.pre = nullopt)]_vars
    /\ []((OnOption /\ last.op \in ReturningOps) =>
            (pc = "run" /\ last.ret # NoReturn))
    /\ []((OnOption /\ last.ret = NoReturn) => last.op \in FatalOps)

\* unzip() was called on an empty Option and has returned two empty
\* Options; nothing was reported.
C30_Witness ==
    /\ OnOptionT("unzip")
    /\ Empty
    /\ last.ret = RetPair(RetOption(nullopt), RetOption(nullopt))
    /\ pc = "run"
    /\ output = <<>>

=============================================================================
